---------------------------- MODULE Spec2Model ----------------------------
(***************************************************************************)
(* Progress tracker of the LMS backend: the per-(user, course) Progress    *)
(* document of src/src/models/Progress.ts and the ProgressService that     *)
(* drives it (src/unnamed/part_007), over a content store of one course    *)
(* with its Module and Lecture documents; and the ModuleService            *)
(* (src/unnamed/part_008) and LectureService                               *)
(* (src/src/services/lectureService.ts) that write that store, with the    *)
(* numbering and the cached counters they keep.                            *)
(*                                                                         *)
(* One user and one course are modelled, so the (userId, courseId) key of  *)
(* the Progress collection has one value and the collection holds at most  *)
(* one document.  An optional value (undefined / null in the source) is a  *)
(* sequence of length 0 or 1.                                              *)
(***************************************************************************)
EXTENDS Integers, Sequences, FiniteSets, TLC

\* Bounds of the model.
NumModules == 2
NumLectures == 3
MaxWatchTime == 1
MaxInactive == 1
MaxTotalLectures == 40
MaxCreated == 4
MaxListLength == 2
MaxNumber == 4
MaxDuration == 2
MaxCalls == 2
MaxLongCourse == 201
MaxRecounts == 3

ModuleIds == 1..NumModules
LectureIds == 1..NumLectures

VARIABLES
  courseExists,   \* the Course document exists
  moduleColl,     \* Module collection: set of [id, moduleNumber, isActive,
                  \*   lectureCount, totalDuration]
  lectureColl,    \* Lecture collection: set of [id, moduleId, lectureNumber,
                  \*   isActive, duration]
  progressColl,   \* Progress collection: {} or {document}
  now,            \* the value new Date() returns
  last,           \* the last ProgressService or deleteCourse call that wrote
                  \*   to the store or threw: [op, outcome]
  courseStats,    \* totalModules, totalLectures, totalDuration of the Course
  created,        \* how many Module and Lecture documents were ever inserted
  calls,          \* the reorder calls in flight, by request
  percentage      \* the counters of a record too long to list: completedLectures,
                  \*   totalLectures and the progressPercentage stored with them

contentVars == <<courseStats, created, calls, percentage>>

vars == <<courseExists, moduleColl, lectureColl, progressColl, now, last,
          courseStats, created, calls, percentage>>

----------------------------------------------------------------------------
\* Generic helpers on sequences.

RECURSIVE SumSeq(_)
SumSeq(s) == IF s = <<>> THEN 0 ELSE Head(s) + SumSeq(Tail(s))

\* Array.prototype.filter: the elements of s at the indices kept, in order.
FilterSeq(s, kept) ==
  [k \in 1..Cardinality(kept) |->
     s[CHOOSE i \in kept : Cardinality({j \in kept : j <= i}) = k]]

\* Array.prototype.findIndex, 1-based, given the indices that pass the test;
\* 0 stands for the -1 of the source.
FindIndex(passing) ==
  IF passing = {} THEN 0 ELSE CHOOSE i \in passing : \A j \in passing : i <= j

----------------------------------------------------------------------------
\* IEEE-754 double arithmetic of Math.round((completed / total) * 100).
\* A positive double is [sig, exp]: sig is its 53-bit significand, an integer
\* in 2^52 .. 2^53 - 1, and the value is sig * 2^(exp - 52).  A significand is
\* held as four limbs, most significant first, of LimbBits bits each (the
\* first limb holds the top 8 bits), so that every step stays inside TLC's
\* 32-bit integers.

LimbBits == 15
LimbBase == 2^LimbBits

Odd(limbs) == limbs[4] % 2 = 1

\* limbs \div d and limbs % d for a small d: long division, limb by limb.
DivLimbs(limbs, d) ==
  LET q1 == limbs[1] \div d
      c2 == (limbs[1] % d) * LimbBase + limbs[2]
      c3 == (c2 % d) * LimbBase + limbs[3]
      c4 == (c3 % d) * LimbBase + limbs[4]
  IN [q |-> <<q1, c2 \div d, c3 \div d, c4 \div d>>, r |-> c4 % d]

\* limbs * m for a small m, exact.
MulLimbs(limbs, m) ==
  LET v4 == limbs[4] * m
      v3 == limbs[3] * m + (v4 \div LimbBase)
      v2 == limbs[2] * m + (v3 \div LimbBase)
      v1 == limbs[1] * m + (v2 \div LimbBase)
  IN <<v1, v2 % LimbBase, v3 % LimbBase, v4 % LimbBase>>

\* limbs + 1
IncLimbs(limbs) ==
  LET v4 == limbs[4] + 1
      v3 == limbs[3] + (v4 \div LimbBase)
      v2 == limbs[2] + (v3 \div LimbBase)
      v1 == limbs[1] + (v2 \div LimbBase)
  IN <<v1, v2 % LimbBase, v3 % LimbBase, v4 % LimbBase>>

\* Round to nearest, ties to even: sig is the exact result cut to 53 bits,
\* rem / d the part cut off.
RoundNearestEven(sig, exp, rem, d) ==
  LET up == 2 * rem > d \/ (2 * rem = d /\ Odd(sig))
      inc == IncLimbs(sig)
  IN IF ~up THEN [sig |-> sig, exp |-> exp]
     ELSE IF inc[1] = 2^8 THEN [sig |-> <<2^7, 0, 0, 0>>, exp |-> exp + 1]
     ELSE [sig |-> inc, exp |-> exp]

\* The shift k with d <= n * 2^k < 2 * d, for 0 < n <= d.
RECURSIVE Normalize(_, _, _)
Normalize(n, d, k) ==
  IF n >= d THEN [n |-> n, k |-> k] ELSE Normalize(2 * n, d, k + 1)

\* c / t for integers 0 < c <= t < 2^8: with c * 2^k in [t, 2t), the
\* significand is (c * 2^k * 2^52) / t rounded, and the exponent is -k.
JsDivide(c, t) ==
  LET nz == Normalize(c, t, 0)
      q == DivLimbs(<<nz.n * 2^7, 0, 0, 0>>, t)
  IN RoundNearestEven(q.q, 0 - nz.k, q.r, t)

\* x * 100: the exact product has 59 or 60 bits, of which 53 are kept.
JsTimes100(x) ==
  LET product == MulLimbs(x.sig, 100)
      shift == IF product[1] >= 2^14 THEN 7 ELSE 6
      q == DivLimbs(product, 2^shift)
  IN RoundNearestEven(q.q, x.exp + shift, q.r, 2^shift)

\* Math.round(x) for a double 0 < x < 2^7: the integer part plus the first
\* fractional bit (a tie goes up); both are in the first limb.
MathRound(x) ==
  IF x.exp < 0 - 1 THEN 0
  ELSE IF x.exp = 0 - 1 THEN 1
  ELSE LET twice == x.sig[1] \div 2^(6 - x.exp)
       IN (twice \div 2) + (twice % 2)

\* Progress.ts:236-238
ProgressPercentage(completedLectures, totalLectures) ==
  IF totalLectures > 0
  THEN IF completedLectures = 0 THEN 0
       ELSE MathRound(JsTimes100(JsDivide(completedLectures, totalLectures)))
  ELSE 0

----------------------------------------------------------------------------
\* The content store as the queries of initializeForCourse see it.

\* find(...).sort({key: 1}): the documents in increasing key order.  MongoDB
\* leaves the order of equal keys open; ties are broken by id here, and every
\* use below filters the result down to documents whose keys are distinct.
SortDocs(docs, key) ==
  LET Before(e, d) == e[key] < d[key] \/ (e[key] = d[key] /\ e.id < d.id)
  IN [k \in 1..Cardinality(docs) |->
        CHOOSE d \in docs : Cardinality({e \in docs : Before(e, d)}) = k - 1]

\* The query of Progress.ts:128 with the isActive condition left out.
FindModulesIgnoringIsActive == SortDocs(moduleColl, "moduleNumber")

\* Progress.ts:128  Module.find({courseId, isActive: true}).sort({moduleNumber: 1})
FindActiveModules == SortDocs({m \in moduleColl : m.isActive}, "moduleNumber")

\* Progress.ts:129  Lecture.find({courseId, isActive: true}).sort({lectureNumber: 1})
FindActiveLectures == SortDocs({l \in lectureColl : l.isActive}, "lectureNumber")

\* Progress.ts:140-145
LectureProgressEntry(lecture) ==
  [lectureId |-> lecture.id, completedAt |-> <<>>, watchTime |-> 0,
   isCompleted |-> FALSE]

\* Progress.ts:135-153: one iteration of the loop over the modules
ModuleProgressEntry(module, lectures) ==
  LET moduleLectures ==
        FilterSeq(lectures, {i \in 1..Len(lectures) : lectures[i].moduleId = module.id})
  IN [moduleId |-> module.id,
      lectures |-> [i \in 1..Len(moduleLectures) |->
                      LectureProgressEntry(moduleLectures[i])],
      completedLectures |-> 0,
      totalLectures |-> Len(moduleLectures),
      isCompleted |-> FALSE,
      completedAt |-> <<>>]

\* Progress.ts:132-156: the moduleProgress array
BuildModuleProgress(modules, lectures) ==
  [i \in 1..Len(modules) |-> ModuleProgressEntry(modules[i], lectures)]

\* Progress.ts:123-179: the upsert.  An existing document keeps the fields the
\* update does not name (completedAt); an inserted one gets the schema defaults.
InitializeForCourse(coll, time) ==
  LET modules == FindActiveModules
      moduleProgress == BuildModuleProgress(modules, FindActiveLectures)
      totalLectures ==
        SumSeq([i \in 1..Len(moduleProgress) |-> moduleProgress[i].totalLectures])
      update == [modules |-> moduleProgress,
                 completedModules |-> 0,
                 totalModules |-> Len(modules),
                 completedLectures |-> 0,
                 totalLectures |-> totalLectures,
                 progressPercentage |-> 0,
                 isCompleted |-> FALSE,
                 lastAccessedAt |-> time]
      kept == IF coll = {} THEN <<>> ELSE (CHOOSE p \in coll : TRUE).completedAt
  IN [modules |-> update.modules,
      completedModules |-> update.completedModules,
      totalModules |-> update.totalModules,
      completedLectures |-> update.completedLectures,
      totalLectures |-> update.totalLectures,
      progressPercentage |-> update.progressPercentage,
      isCompleted |-> update.isCompleted,
      completedAt |-> kept,
      lastAccessedAt |-> update.lastAccessedAt]

----------------------------------------------------------------------------
\* Instance methods of the Progress document.

\* Progress.ts:189  module.lectures.some(lecture => lecture.lectureId == lectureId)
HasLecture(module, lectureId) ==
  \E i \in 1..Len(module.lectures) : module.lectures[i].lectureId = lectureId

\* Progress.ts:188-190  the index of the first module holding the lecture
FindModuleIndex(modules, lectureId) ==
  FindIndex({k \in 1..Len(modules) : HasLecture(modules[k], lectureId)})

\* Progress.ts:197-199  the index of the lecture inside its module
FindLectureIndex(lectures, lectureId) ==
  FindIndex({i \in 1..Len(lectures) : lectures[i].lectureId = lectureId})

\* Progress.ts:207-219
UpdateLectureEntry(lecture, watchTime, isCompleted, time) ==
  LET watched == IF watchTime # <<>>
                 THEN [lecture EXCEPT !.watchTime = watchTime[1]]
                 ELSE lecture
  IN IF isCompleted = <<>> THEN watched
     ELSE [watched EXCEPT
             !.isCompleted = isCompleted[1],
             !.completedAt = IF isCompleted[1] /\ lecture.completedAt = <<>>
                             THEN <<time>>
                             ELSE IF ~isCompleted[1] THEN <<>>
                             ELSE lecture.completedAt]

\* Progress.ts:221-224 keeping a running count, one more for each call, in
\* place of the recount of the completed lecture entries.
RecalculateModuleByIncrement(module, time) ==
  LET completedLectures == module.completedLectures + 1
      isCompleted == completedLectures = module.totalLectures
  IN [module EXCEPT
        !.completedLectures = completedLectures,
        !.isCompleted = isCompleted,
        !.completedAt = IF isCompleted /\ module.completedAt = <<>> THEN <<time>>
                        ELSE IF ~isCompleted THEN <<>>
                        ELSE module.completedAt]

\* Progress.ts:221-230
RecalculateModule(module, time) ==
  LET completedLectures ==
        Len(FilterSeq(module.lectures,
                      {i \in 1..Len(module.lectures) : module.lectures[i].isCompleted}))
      isCompleted == completedLectures = module.totalLectures
  IN [module EXCEPT
        !.completedLectures = completedLectures,
        !.isCompleted = isCompleted,
        !.completedAt = IF isCompleted /\ module.completedAt = <<>> THEN <<time>>
                        ELSE IF ~isCompleted THEN <<>>
                        ELSE module.completedAt]

\* Progress.ts:232-248 with line 241 comparing the lecture counters in place
\* of the module counters.
RecalculateOverallByLectures(doc, time) ==
  LET completedLectures ==
        SumSeq([i \in 1..Len(doc.modules) |-> doc.modules[i].completedLectures])
      completedModules ==
        Len(FilterSeq(doc.modules,
                      {i \in 1..Len(doc.modules) : doc.modules[i].isCompleted}))
      isCompleted == completedLectures = doc.totalLectures
  IN [doc EXCEPT
        !.completedLectures = completedLectures,
        !.completedModules = completedModules,
        !.progressPercentage = ProgressPercentage(completedLectures, doc.totalLectures),
        !.isCompleted = isCompleted,
        !.completedAt = IF isCompleted /\ doc.completedAt = <<>> THEN <<time>>
                        ELSE IF ~isCompleted THEN <<>>
                        ELSE doc.completedAt,
        !.lastAccessedAt = time]

\* Progress.ts:232-248
RecalculateOverall(doc, time) ==
  LET completedLectures ==
        SumSeq([i \in 1..Len(doc.modules) |-> doc.modules[i].completedLectures])
      completedModules ==
        Len(FilterSeq(doc.modules,
                      {i \in 1..Len(doc.modules) : doc.modules[i].isCompleted}))
      isCompleted == completedModules = doc.totalModules
  IN [doc EXCEPT
        !.completedLectures = completedLectures,
        !.completedModules = completedModules,
        !.progressPercentage = ProgressPercentage(completedLectures, doc.totalLectures),
        !.isCompleted = isCompleted,
        !.completedAt = IF isCompleted /\ doc.completedAt = <<>> THEN <<time>>
                        ELSE IF ~isCompleted THEN <<>>
                        ELSE doc.completedAt,
        !.lastAccessedAt = time]

\* Progress.ts:182-251  progressSchema.methods.updateLectureProgress: the
\* document saved, or the throw of 'Lecture not found in progress'.
UpdateLectureProgressMethod(doc, lectureId, watchTime, isCompleted, time) ==
  LET moduleIndex == FindModuleIndex(doc.modules, lectureId)
  IN IF moduleIndex = 0 THEN [thrown |-> TRUE, doc |-> doc]
     ELSE LET module == doc.modules[moduleIndex]
              lectureIndex == FindLectureIndex(module.lectures, lectureId)
              lecture == UpdateLectureEntry(module.lectures[lectureIndex],
                                            watchTime, isCompleted, time)
              updated == RecalculateModule(
                           [module EXCEPT !.lectures[lectureIndex] = lecture], time)
          IN [thrown |-> FALSE,
              doc |-> RecalculateOverall(
                        [doc EXCEPT !.modules[moduleIndex] = updated], time)]

\* The inner loop of Progress.ts:256-273 without the return inside it: the
\* last lecture not completed wins, not the first.
ScanLecturesToEnd(lectures) ==
  LET open == {j \in 1..Len(lectures) : ~lectures[j].isCompleted}
      i == IF open = {} THEN 0 ELSE CHOOSE j \in open : \A k \in open : k <= j
  IN IF i = 0 THEN [found |-> FALSE, lectureId |-> <<>>, branch |-> "none"]
     ELSE [found |-> TRUE, lectureId |-> <<lectures[i].lectureId>>,
           branch |-> IF i = 1 THEN "first" ELSE "current"]

\* Progress.ts:256-273: the inner loop over the lectures of one module, which
\* returns at the first lecture not completed.  branch names the return
\* statement taken: "first" (line 263), "current" (268), "previous" (270).
ScanLectures(lectures) ==
  LET i == FindIndex({j \in 1..Len(lectures) : ~lectures[j].isCompleted})
  IN IF i = 0 THEN [found |-> FALSE, lectureId |-> <<>>, branch |-> "none"]
     ELSE IF i = 1
          THEN [found |-> TRUE, lectureId |-> <<lectures[i].lectureId>>,
                branch |-> "first"]
          ELSE IF lectures[i - 1].isCompleted
               THEN [found |-> TRUE, lectureId |-> <<lectures[i].lectureId>>,
                     branch |-> "current"]
               ELSE [found |-> TRUE, lectureId |-> <<lectures[i - 1].lectureId>>,
                     branch |-> "previous"]

\* Progress.ts:255-276: the outer loop from module k on
RECURSIVE ScanModules(_, _)
ScanModules(modules, k) ==
  IF k > Len(modules) THEN [found |-> FALSE, lectureId |-> <<>>, branch |-> "none"]
  ELSE LET r == ScanLectures(modules[k].lectures)
       IN IF r.found THEN r ELSE ScanModules(modules, k + 1)

\* Progress.ts:254-277  progressSchema.methods.getNextUnlockedLecture
GetNextUnlockedLecture(doc) == ScanModules(doc.modules, 1).lectureId

\* Progress.ts:280-303  progressSchema.methods.isLectureUnlocked
IsLectureUnlocked(doc, lectureId) ==
  LET nextUnlocked == GetNextUnlockedLecture(doc)
      moduleIndex == FindModuleIndex(doc.modules, lectureId)
  IN IF nextUnlocked = <<>> THEN TRUE
     ELSE IF moduleIndex = 0 THEN FALSE
     ELSE LET module == doc.modules[moduleIndex]
              i == FindLectureIndex(module.lectures, lectureId)
          IN IF \E j \in 1..i : module.lectures[j].lectureId = nextUnlocked[1]
             THEN TRUE
             ELSE module.lectures[i].isCompleted

----------------------------------------------------------------------------
\* The cached counters of the content store.

\* $sum: '$duration' over a set of Lecture documents
RECURSIVE SumDuration(_)
SumDuration(lectures) ==
  IF lectures = {} THEN 0
  ELSE LET l == CHOOSE d \in lectures : TRUE
       IN l.duration + SumDuration(lectures \ {l})

\* part_000:113-124  the aggregate of calculateLectureStats: the active
\* lectures of the module, counted and their durations summed.
LectureStats(lectures, moduleId) ==
  LET matched == {l \in lectures : l.moduleId = moduleId /\ l.isActive}
  IN [lectureCount |-> Cardinality(matched), totalDuration |-> SumDuration(matched)]

\* Course.ts:118-151  calculateStats: the active modules of the course
\* counted, and the active lectures that carry the course's id counted and
\* their durations summed.  Every lecture of the store carries the id of the
\* one course.
CalculateStats(modules, lectures) ==
  LET matched == {l \in lectures : l.isActive}
  IN [totalModules |-> Cardinality({m \in modules : m.isActive}),
      totalLectures |-> Cardinality(matched),
      totalDuration |-> SumDuration(matched)]

\* part_000:26-33  a Module document with the counters of its lectures
WithLectureStats(module, lectures) ==
  LET stats == LectureStats(lectures, module.id)
  IN [id |-> module.id, moduleNumber |-> module.moduleNumber,
      isActive |-> module.isActive,
      lectureCount |-> stats.lectureCount, totalDuration |-> stats.totalDuration]

----------------------------------------------------------------------------
\* The state the service runs in.

\* The progress document of the (user, course) key; used when one exists.
Doc == CHOOSE p \in progressColl : TRUE

\* Lecture ids a request may carry: those of the store, and 0, an id of no
\* lecture.
RequestLectureIds == {0} \cup LectureIds

WatchTimeInputs == {<<>>} \cup {<<w>> : w \in 0..MaxWatchTime}
IsCompletedInputs == {<<>>, <<TRUE>>, <<FALSE>>}

Called(op, outcome) == [op |-> op, outcome |-> outcome]

\* The requests that can be in a reorder call at the same time, and the
\* state in which none of them is.
Requests == 1..MaxCalls
Idle == [pc |-> "idle"]
NoCalls == [r \in Requests |-> Idle]

\* No long record is followed.
NoPercentage == [completedLectures |-> 0, totalLectures |-> 0, progressPercentage |-> 0]

\* The lectureNumber of lecture l when the lectures of each module are
\* numbered 1..K in the order given by perm.
NumberIn(l, assign, perm, nl) ==
  1 + Cardinality({k \in 1..nl : assign[k] = assign[l] /\ perm[k] < perm[l]})

\* A store some sequence of content operations has produced: the first nm
\* module ids and nl lecture ids are in use, modules are numbered 1..nm and the
\* lectures of each module 1..K in some order, at most MaxInactive documents
\* are inactive, the counters are those of the documents; no progress has
\* been recorded and no reorder call is in flight.
Init ==
  /\ courseExists = TRUE
  /\ \E nm \in 0..NumModules, nl \in 0..NumLectures :
       \E mperm \in Permutations(1..nm), assign \in [1..nl -> 1..nm],
          lperm \in Permutations(1..nl) :
         \E offM \in SUBSET (1..nm), offL \in SUBSET (1..nl) :
           LET lectures == {[id |-> l, moduleId |-> assign[l],
                             lectureNumber |-> NumberIn(l, assign, lperm, nl),
                             isActive |-> l \notin offL, duration |-> 1] :
                              l \in 1..nl}
               modules == {WithLectureStats([id |-> m, moduleNumber |-> mperm[m],
                                             isActive |-> m \notin offM],
                                            lectures) : m \in 1..nm}
           IN /\ Cardinality(offM) + Cardinality(offL) <= MaxInactive
              /\ moduleColl = modules
              /\ lectureColl = lectures
              /\ courseStats = CalculateStats(modules, lectures)
              /\ created = [modules |-> nm, lectures |-> nl]
  /\ progressColl = {}
  /\ now = 1
  /\ last = Called("none", "ok")
  /\ calls = NoCalls
  /\ percentage = NoPercentage

----------------------------------------------------------------------------
\* ProgressService (src/unnamed/part_007) and CourseService.deleteCourse.

\* part_007:7-21  initializeProgress: the collection it leaves, or the throw
\* of COURSE_NOT_FOUND before anything is written.
InitializeProgressResult(coll) ==
  IF ~courseExists THEN [thrown |-> TRUE, coll |-> coll]
  ELSE [thrown |-> FALSE, coll |-> {InitializeForCourse(coll, now)}]

InitializeProgress ==
  LET r == InitializeProgressResult(progressColl)
  IN /\ progressColl' = r.coll
     /\ last' = Called("initialize", IF r.thrown THEN "CourseNotFound" ELSE "ok")
     /\ UNCHANGED <<courseExists, moduleColl, lectureColl, now>>
     /\ UNCHANGED contentVars

\* part_007:36-60  updateLectureProgress: findOne, initializeProgress when no
\* document exists, then the document's updateLectureProgress and its save.
UpdateLectureProgressResult(coll, lectureId, watchTime, isCompleted) ==
  LET init == IF coll = {} THEN InitializeProgressResult(coll)
              ELSE [thrown |-> FALSE, coll |-> coll]
  IN IF init.thrown THEN [outcome |-> "CourseNotFound", coll |-> init.coll]
     ELSE LET progress == CHOOSE p \in init.coll : TRUE
              r == UpdateLectureProgressMethod(progress, lectureId, watchTime,
                                               isCompleted, now)
          IN IF r.thrown THEN [outcome |-> "LectureNotFound", coll |-> init.coll]
             ELSE [outcome |-> "ok", coll |-> {r.doc}]

UpdateLectureProgress(lectureId, watchTime, isCompleted) ==
  LET r == UpdateLectureProgressResult(progressColl, lectureId, watchTime,
                                       isCompleted)
  IN /\ progressColl' = r.coll
     /\ last' = Called("update", r.outcome)
     /\ UNCHANGED <<courseExists, moduleColl, lectureColl, now>>
     /\ UNCHANGED contentVars

\* part_007:157-168  resetProgress: findOneAndDelete, then initializeProgress.
ResetProgressResult(coll) == InitializeProgressResult({})

ResetProgress ==
  LET r == ResetProgressResult(progressColl)
  IN /\ progressColl' = r.coll
     /\ last' = Called("reset", IF r.thrown THEN "CourseNotFound" ELSE "ok")
     /\ UNCHANGED <<courseExists, moduleColl, lectureColl, now>>
     /\ UNCHANGED contentVars

\* part_007:117-134  getNextUnlockedLecture and part_007:136-155
\* isLectureUnlocked: both initialize the progress when no document exists.
QueryResult(coll) ==
  IF coll = {} THEN InitializeProgressResult(coll)
  ELSE [thrown |-> FALSE, coll |-> coll]

GetNextUnlockedLectureQuery ==
  LET r == QueryResult(progressColl)
  IN /\ progressColl' = r.coll
     /\ last' = IF r.coll = progressColl /\ ~r.thrown THEN last
                ELSE Called("nextUnlocked", IF r.thrown THEN "CourseNotFound" ELSE "ok")
     /\ UNCHANGED <<courseExists, moduleColl, lectureColl, now>>
     /\ UNCHANGED contentVars

IsLectureUnlockedQuery ==
  LET r == QueryResult(progressColl)
  IN /\ progressColl' = r.coll
     /\ last' = IF r.coll = progressColl /\ ~r.thrown THEN last
                ELSE Called("isUnlocked", IF r.thrown THEN "CourseNotFound" ELSE "ok")
     /\ UNCHANGED <<courseExists, moduleColl, lectureColl, now>>
     /\ UNCHANGED contentVars

\* courseService.ts:124-149  deleteCourse by its creator: the lectures, the
\* modules and the course go; Progress documents are not touched.
DeleteCourse ==
  /\ courseExists
  /\ courseExists' = FALSE
  /\ moduleColl' = {}
  /\ lectureColl' = {}
  /\ last' = Called("deleteCourse", "ok")
  /\ UNCHANGED <<progressColl, now, courseStats, created, calls, percentage>>

Next ==
  \/ InitializeProgress
  \/ \E lectureId \in RequestLectureIds, watchTime \in WatchTimeInputs,
        isCompleted \in IsCompletedInputs :
       UpdateLectureProgress(lectureId, watchTime, isCompleted)
  \/ ResetProgress
  \/ GetNextUnlockedLectureQuery
  \/ IsLectureUnlockedQuery
  \/ DeleteCourse

Spec == Init /\ [][Next]_vars

----------------------------------------------------------------------------
\* The Module and Lecture collections under their indexes and hooks.  The
\* operators below work on db, the three parts of the content store:
\* [modules, lectures, course].

Db == [modules |-> moduleColl, lectures |-> lectureColl, course |-> courseStats]

Done(db) == [error |-> "none", db |-> db]
Failed(error, db) == [error |-> error, db |-> db]

\* A Module collection without the unique index: every write is accepted.
ModuleNumberUnchecked(modules, id, n) == TRUE

\* part_000:53  the unique index on (courseId, moduleNumber): a write that
\* gives module id the number n is accepted.
ModuleNumberFree(modules, id, n) ==
  \A m \in modules : m.id = id \/ m.moduleNumber # n

\* Progress.ts:394  the unique index on (moduleId, lectureNumber)
LectureNumberFree(lectures, id, moduleId, n) ==
  \A l \in lectures : l.id = id \/ l.moduleId # moduleId \/ l.lectureNumber # n

\* part_000:69-73  the number after the highest of the course, or 1
NextModuleNumber(modules) ==
  IF modules = {} THEN 1
  ELSE (CHOOSE m \in modules :
          \A o \in modules : o.moduleNumber <= m.moduleNumber).moduleNumber + 1

\* Progress.ts:404-408  the number after the highest of the module, or 1
NextLectureNumber(lectures, moduleId) ==
  LET siblings == {l \in lectures : l.moduleId = moduleId}
  IN IF siblings = {} THEN 1
     ELSE (CHOOSE l \in siblings :
             \A o \in siblings : o.lectureNumber <= l.lectureNumber).lectureNumber + 1

\* Course.ts:140-144  calculateStats stores what it has counted
SaveCourseStats(db) ==
  [db EXCEPT !.course = CalculateStats(db.modules, db.lectures)]

\* part_000:110-132 and 84-94  calculateLectureStats of a stored module: the
\* counters are written to the module, and the post('save') hook of that
\* save runs calculateStats of the course.
SaveLectureStats(db, moduleId) ==
  SaveCourseStats(
    [db EXCEPT !.modules = {IF m.id = moduleId THEN WithLectureStats(m, db.lectures)
                            ELSE m : m \in db.modules}])

\* part_000:12-16 and 66-81: the number a new Module document is saved with.
\* moduleNumber is a required path and the pre('save') hook fills it when it
\* is missing; which of the two sees the document first is up to the order in
\* which Mongoose runs its own validation hook and the schema's hook, so
\* both orders are taken: hookFirst is the one in which the hook does.
NumberOnSave(number, next, hookFirst) ==
  IF number # <<>> THEN number ELSE IF hookFirst THEN <<next>> ELSE <<>>

\* new Module(...).save(): validation and pre('save') hook (part_000:66-81),
\* the insert under the unique index (part_000:53), the post('save') hook
\* (part_000:84-94).
SaveNewModule(db, id, number, isActive, hookFirst) ==
  LET numbered == NumberOnSave(number, NextModuleNumber(db.modules), hookFirst)
      module == [id |-> id, moduleNumber |-> numbered[1], isActive |-> isActive,
                 lectureCount |-> 0, totalDuration |-> 0]
  IN IF numbered = <<>> THEN Failed("ValidationError", db)
     ELSE IF ~ModuleNumberFree(db.modules, id, numbered[1])
          THEN Failed("DuplicateKey", db)
     ELSE Done(SaveCourseStats([db EXCEPT !.modules = @ \cup {module}]))

\* new Lecture(...).save(): validation and pre('save') hook
\* (Progress.ts:400-416), the insert under the unique index (Progress.ts:394),
\* the post('save') hook (Progress.ts:418-429), which recomputes the module
\* when it finds it.
SaveNewLecture(db, id, moduleId, number, duration, isActive, hookFirst) ==
  LET numbered == NumberOnSave(number, NextLectureNumber(db.lectures, moduleId),
                               hookFirst)
      lecture == [id |-> id, moduleId |-> moduleId, lectureNumber |-> numbered[1],
                  isActive |-> isActive, duration |-> duration]
      inserted == [db EXCEPT !.lectures = @ \cup {lecture}]
  IN IF numbered = <<>> THEN Failed("ValidationError", db)
     ELSE IF ~LectureNumberFree(db.lectures, id, moduleId, numbered[1])
          THEN Failed("DuplicateKey", db)
     ELSE IF \E m \in db.modules : m.id = moduleId
          THEN Done(SaveLectureStats(inserted, moduleId))
          ELSE Done(inserted)

\* Module.findByIdAndUpdate(id, {moduleNumber, isActive}): the fields given
\* are set, under the unique index; no document of that id is no error, and
\* no save hook runs.
UpdateModuleDoc(db, id, number, isActive) ==
  IF ~\E m \in db.modules : m.id = id THEN Done(db)
  ELSE LET old == CHOOSE m \in db.modules : m.id = id
           new == [old EXCEPT
                     !.moduleNumber = IF number = <<>> THEN @ ELSE number[1],
                     !.isActive = IF isActive = <<>> THEN @ ELSE isActive[1]]
       IN IF ~ModuleNumberFree(db.modules, id, new.moduleNumber)
          THEN Failed("DuplicateKey", db)
          ELSE Done([db EXCEPT !.modules = (@ \ {old}) \cup {new}])

\* Lecture.findByIdAndUpdate(id, {lectureNumber, duration, isActive})
UpdateLectureDoc(db, id, number, duration, isActive) ==
  IF ~\E l \in db.lectures : l.id = id THEN Done(db)
  ELSE LET old == CHOOSE l \in db.lectures : l.id = id
           new == [old EXCEPT
                     !.lectureNumber = IF number = <<>> THEN @ ELSE number[1],
                     !.duration = IF duration = <<>> THEN @ ELSE duration[1],
                     !.isActive = IF isActive = <<>> THEN @ ELSE isActive[1]]
       IN IF ~LectureNumberFree(db.lectures, id, old.moduleId, new.lectureNumber)
          THEN Failed("DuplicateKey", db)
          ELSE Done([db EXCEPT !.lectures = (@ \ {old}) \cup {new}])

----------------------------------------------------------------------------
\* ModuleService (src/unnamed/part_008) and LectureService
\* (src/src/services/lectureService.ts) on the one course: what a call
\* leaves in the store, and the error it throws.

\* part_008:8-26  createModule
CreateModuleResult(db, id, number, hookFirst) ==
  IF ~courseExists THEN Failed("CourseNotFound", db)
  ELSE LET saved == SaveNewModule(db, id, number, TRUE, hookFirst)
       IN IF saved.error # "none" THEN saved
          ELSE Done(SaveCourseStats(saved.db))

\* part_008:48-82  updateModule
UpdateModuleResult(db, id, number, isActive) ==
  IF ~\E m \in db.modules : m.id = id THEN Failed("ModuleNotFound", db)
  ELSE LET module == CHOOSE m \in db.modules : m.id = id
       IN IF /\ number # <<>>
             /\ number[1] # module.moduleNumber
             /\ \E m \in db.modules : m.id # id /\ m.moduleNumber = number[1]
          THEN Failed("NumberExists", db)
          ELSE UpdateModuleDoc(db, id, number, isActive)

\* part_008:84-108  deleteModule: the lectures of the module go, the module
\* goes, the course is recomputed.  The post('findOneAndDelete') hook
\* (part_000:97-107) looks the course up by the courseId of a query that has
\* none, finds nothing and does nothing.
DeleteModuleResult(db, id) ==
  IF ~\E m \in db.modules : m.id = id THEN Failed("ModuleNotFound", db)
  ELSE LET deleted == [db EXCEPT
                         !.lectures = {l \in @ : l.moduleId # id},
                         !.modules = {m \in @ : m.id # id}]
       IN IF courseExists THEN Done(SaveCourseStats(deleted)) ELSE Done(deleted)

\* part_008:199-211: the copies of the lectures from the k-th on, saved one
\* after the other without a lectureNumber, lecturesCreated lectures having
\* been inserted before; the
\* first save that fails ends the loop.  copied counts the saves done.
RECURSIVE DuplicateLectures(_, _, _, _, _, _)
DuplicateLectures(db, originals, k, moduleId, lecturesCreated, hookFirst) ==
  IF k > Len(originals) THEN [error |-> "none", db |-> db, copied |-> k - 1]
  ELSE LET saved == SaveNewLecture(db, lecturesCreated + k, moduleId, <<>>,
                                   originals[k].duration, originals[k].isActive,
                                   hookFirst)
       IN IF saved.error # "none"
          THEN [error |-> saved.error, db |-> saved.db, copied |-> k - 1]
          ELSE DuplicateLectures(saved.db, originals, k + 1, moduleId,
                                 lecturesCreated, hookFirst)

\* part_008:172-223  duplicateModule: the copy of the module is saved after
\* the last module of the course, then the copies of its lectures (found
\* without a sort, taken in the order of insertion, which is that of the
\* ids), then the course is recomputed.
DuplicateModuleResult(db, id, newId, lecturesCreated, hookFirst) ==
  IF ~\E m \in db.modules : m.id = id
  THEN [error |-> "ModuleNotFound", db |-> db, module |-> FALSE, copied |-> 0]
  ELSE LET original == CHOOSE m \in db.modules : m.id = id
           saved == SaveNewModule(db, newId, <<NextModuleNumber(db.modules)>>,
                                  original.isActive, hookFirst)
           originals == SortDocs({l \in db.lectures : l.moduleId = id}, "id")
           copies == DuplicateLectures(saved.db, originals, 1, newId,
                                       lecturesCreated, hookFirst)
       IN IF saved.error # "none"
          THEN [error |-> saved.error, db |-> db, module |-> FALSE, copied |-> 0]
          ELSE IF copies.error # "none"
               THEN [error |-> copies.error, db |-> copies.db, module |-> TRUE,
                     copied |-> copies.copied]
          ELSE [error |-> "none",
                db |-> IF courseExists THEN SaveCourseStats(copies.db) ELSE copies.db,
                module |-> TRUE, copied |-> copies.copied]

\* lectureService.ts:8-39  createLecture, for the one course
CreateLectureResult(db, id, moduleId, number, duration, hookFirst) ==
  IF ~\E m \in db.modules : m.id = moduleId THEN Failed("ModuleNotFound", db)
  ELSE IF ~courseExists THEN Failed("CourseNotFound", db)
  ELSE LET saved == SaveNewLecture(db, id, moduleId, number, duration, TRUE,
                                   hookFirst)
       IN IF saved.error # "none" THEN saved
          ELSE Done(SaveLectureStats(saved.db, moduleId))

\* lectureService.ts:121-165  updateLecture
UpdateLectureResult(db, id, number, duration, isActive) ==
  IF ~\E l \in db.lectures : l.id = id THEN Failed("LectureNotFound", db)
  ELSE LET lecture == CHOOSE l \in db.lectures : l.id = id
           updated == UpdateLectureDoc(db, id, number, duration, isActive)
       IN IF /\ number # <<>>
             /\ number[1] # lecture.lectureNumber
             /\ \E l \in db.lectures : /\ l.id # id
                                       /\ l.moduleId = lecture.moduleId
                                       /\ l.lectureNumber = number[1]
          THEN Failed("NumberExists", db)
          ELSE IF updated.error # "none" THEN updated
          ELSE IF duration # <<>> /\ \E m \in db.modules : m.id = lecture.moduleId
               THEN Done(SaveLectureStats(updated.db, lecture.moduleId))
               ELSE updated

\* lectureService.ts:167-188  deleteLecture.  The post('findOneAndDelete')
\* hook (Progress.ts:431-442) looks the module up by the moduleId of a query
\* that has none, finds nothing and does nothing.
DeleteLectureResult(db, id) ==
  IF ~\E l \in db.lectures : l.id = id THEN Failed("LectureNotFound", db)
  ELSE LET lecture == CHOOSE l \in db.lectures : l.id = id
           deleted == [db EXCEPT !.lectures = @ \ {lecture}]
       IN IF \E m \in db.modules : m.id = lecture.moduleId
          THEN Done(SaveLectureStats(deleted, lecture.moduleId))
          ELSE Done(deleted)

\* lectureService.ts:262-300  duplicateLecture
DuplicateLectureResult(db, id, newId, hookFirst) ==
  IF ~\E l \in db.lectures : l.id = id THEN Failed("LectureNotFound", db)
  ELSE LET original == CHOOSE l \in db.lectures : l.id = id
           saved == SaveNewLecture(
                      db, newId, original.moduleId,
                      <<NextLectureNumber(db.lectures, original.moduleId)>>,
                      original.duration, original.isActive, hookFirst)
       IN IF saved.error # "none" THEN saved
          ELSE IF \E m \in db.modules : m.id = original.moduleId
               THEN Done(SaveLectureStats(saved.db, original.moduleId))
               ELSE saved

\* reorderModules up to its loop as it would be with a find by _id alone and
\* no count of what was found.
ReorderModulesFindAny(db, ids) ==
  LET found == {m \in db.modules : \E k \in 1..Len(ids) : ids[k] = m.id}
  IN [error |-> "none", found |-> {<<m.id, m.moduleNumber>> : m \in found}]

\* part_008:133-151  reorderModules up to its loop: the documents found for
\* the ids, as pairs of id and moduleNumber, or the error thrown.  An empty
\* list is turned down before the service is called (moduleRoutes.ts:23-25,
\* part_003:150-155).
ReorderModulesFind(db, ids) ==
  LET found == {m \in db.modules : \E k \in 1..Len(ids) : ids[k] = m.id}
  IN IF ids = <<>> THEN [error |-> "EmptyList", found |-> {}]
     ELSE IF ~courseExists THEN [error |-> "CourseNotFound", found |-> {}]
     ELSE IF Cardinality(found) # Len(ids) THEN [error |-> "NotInCourse", found |-> {}]
     ELSE [error |-> "none", found |-> {<<m.id, m.moduleNumber>> : m \in found}]

\* lectureService.ts:223-241  reorderLectures up to its loop
\* (lectureRoutes.ts:34-36, authController.ts:467-472 for the empty list)
ReorderLecturesFind(db, moduleId, ids) ==
  LET found == {l \in db.lectures :
                  l.moduleId = moduleId /\ \E k \in 1..Len(ids) : ids[k] = l.id}
  IN IF ids = <<>> THEN [error |-> "EmptyList", found |-> {}]
     ELSE IF ~\E m \in db.modules : m.id = moduleId
          THEN [error |-> "ModuleNotFound", found |-> {}]
     ELSE IF Cardinality(found) # Len(ids) THEN [error |-> "NotInModule", found |-> {}]
     ELSE [error |-> "none", found |-> {<<l.id, l.lectureNumber>> : l \in found}]

\* part_008:155-164  one pass of the loop of reorderModules
ReorderModulesWriteResult(db, ids, k) == UpdateModuleDoc(db, ids[k], <<k>>, <<>>)

\* One pass of the loop of reorderLectures as it would be with a save() of
\* the document, whose post('save') hook recomputes the counters.
ReorderLecturesWriteSaving(db, ids, k) ==
  LET written == UpdateLectureDoc(db, ids[k], <<k>>, <<>>, <<>>)
  IN IF written.error # "none" THEN written
     ELSE IF \E l \in db.lectures : l.id = ids[k]
          THEN Done(SaveLectureStats(written.db,
                      (CHOOSE l \in db.lectures : l.id = ids[k]).moduleId))
          ELSE written

\* lectureService.ts:245-254  one pass of the loop of reorderLectures
ReorderLecturesWriteResult(db, ids, k) ==
  UpdateLectureDoc(db, ids[k], <<k>>, <<>>, <<>>)

----------------------------------------------------------------------------
\* The content operations as steps.  Every operation but the two reorders is
\* one step; a reorder is one step for what it reads and one step for each
\* pass of its loop.

\* The ids a request may carry: those of the documents inserted so far,
\* stored or deleted since, and 0, the id of none.
ModuleRequestIds == 0..created.modules
LectureRequestIds == 0..created.lectures
NumberInputs == {<<>>} \cup {<<n>> : n \in 1..MaxNumber}
DurationInputs == 1..MaxDuration
IsActiveInputs == {<<>>, <<TRUE>>, <<FALSE>>}
ModuleIdLists == UNION {[1..n -> ModuleRequestIds] : n \in 0..MaxListLength}
LectureIdLists == UNION {[1..n -> LectureRequestIds] : n \in 0..MaxListLength}

\* Documents inserted so far; no more than MaxCreated are.
Inserted == created.modules + created.lectures

Store(db) ==
  /\ moduleColl' = db.modules
  /\ lectureColl' = db.lectures
  /\ courseStats' = db.course

CreateModule(number, hookFirst) ==
  /\ Inserted < MaxCreated
  /\ LET r == CreateModuleResult(Db, created.modules + 1, number, hookFirst)
     IN /\ r.error = "none" => \A m \in r.db.modules : m.moduleNumber <= MaxNumber
        /\ Store(r.db)
        /\ created' = IF r.error = "none" THEN [created EXCEPT !.modules = @ + 1]
                      ELSE created
  /\ UNCHANGED <<courseExists, progressColl, now, last, percentage, calls>>

UpdateModule(id, number, isActive) ==
  /\ LET r == UpdateModuleResult(Db, id, number, isActive)
     IN /\ Store(r.db)
  /\ UNCHANGED <<courseExists, progressColl, now, last, percentage, created, calls>>

DeleteModule(id) ==
  /\ LET r == DeleteModuleResult(Db, id)
     IN /\ Store(r.db)
  /\ UNCHANGED <<courseExists, progressColl, now, last, percentage, created, calls>>

DuplicateModule(id, hookFirst) ==
  /\ Inserted < MaxCreated
  /\ LET r == DuplicateModuleResult(Db, id, created.modules + 1, created.lectures,
                                    hookFirst)
     IN /\ Inserted + 1 + r.copied <= MaxCreated
        /\ \A m \in r.db.modules : m.moduleNumber <= MaxNumber
        /\ Store(r.db)
        /\ created' = [modules |-> created.modules + (IF r.module THEN 1 ELSE 0),
                       lectures |-> created.lectures + r.copied]
  /\ UNCHANGED <<courseExists, progressColl, now, last, percentage, calls>>

CreateLecture(moduleId, number, duration, hookFirst) ==
  /\ Inserted < MaxCreated
  /\ LET r == CreateLectureResult(Db, created.lectures + 1, moduleId, number,
                                  duration, hookFirst)
     IN /\ r.error = "none" => \A l \in r.db.lectures : l.lectureNumber <= MaxNumber
        /\ Store(r.db)
        /\ created' = IF r.error = "none" THEN [created EXCEPT !.lectures = @ + 1]
                      ELSE created
  /\ UNCHANGED <<courseExists, progressColl, now, last, percentage, calls>>

UpdateLecture(id, number, duration, isActive) ==
  /\ LET r == UpdateLectureResult(Db, id, number, duration, isActive)
     IN /\ Store(r.db)
  /\ UNCHANGED <<courseExists, progressColl, now, last, percentage, created, calls>>

\* deleteLecture as it would be if it cascaded to the learners' records.
DeleteLectureWithProgress(id) ==
  /\ LET r == DeleteLectureResult(Db, id)
     IN /\ Store(r.db)
        /\ progressColl' = IF r.error = "none" THEN {} ELSE progressColl
  /\ UNCHANGED <<courseExists, now, last, percentage, created, calls>>

DeleteLecture(id) ==
  /\ LET r == DeleteLectureResult(Db, id)
     IN /\ Store(r.db)
  /\ UNCHANGED <<courseExists, progressColl, now, last, percentage, created, calls>>

DuplicateLecture(id, hookFirst) ==
  /\ Inserted < MaxCreated
  /\ LET r == DuplicateLectureResult(Db, id, created.lectures + 1, hookFirst)
     IN /\ \A l \in r.db.lectures : l.lectureNumber <= MaxNumber
        /\ Store(r.db)
        /\ created' = IF r.error = "none" THEN [created EXCEPT !.lectures = @ + 1]
                      ELSE created
  /\ UNCHANGED <<courseExists, progressColl, now, last, percentage, calls>>

\* A call turned down with a 400 response that is still to be sent.
TurnedDown(op, error) == [pc |-> "turnedDown", op |-> op, error |-> error]

\* part_008:133-151 as a step of request r: the call is turned down, or is
\* in flight with no pass of its loop done.  The documents it has found stay
\* in its `modules` constant; the record keeps them when remember is TRUE, for
\* the properties that compare the numbering with the one the call started
\* from.
ReorderModulesBegin(r, ids, remember) ==
  /\ calls[r] = Idle
  /\ LET read == ReorderModulesFind(Db, ids)
     IN IF read.error # "none"
        THEN calls' = [calls EXCEPT ![r] = TurnedDown("reorderModules", read.error)]
        ELSE calls' = [calls EXCEPT ![r] = [pc |-> "reorderModules", parent |-> 0,
                                            ids |-> ids, i |-> 0,
                                            found |-> IF remember THEN read.found ELSE {}]]
  /\ UNCHANGED <<courseExists, moduleColl, lectureColl, progressColl, now, last, percentage,
                 courseStats, created>>

\* lectureService.ts:223-241 as a step of request r
ReorderLecturesBegin(r, moduleId, ids, remember) ==
  /\ calls[r] = Idle
  /\ LET read == ReorderLecturesFind(Db, moduleId, ids)
     IN IF read.error # "none"
        THEN calls' = [calls EXCEPT ![r] = TurnedDown("reorderLectures", read.error)]
        ELSE calls' = [calls EXCEPT ![r] = [pc |-> "reorderLectures",
                                            parent |-> moduleId,
                                            ids |-> ids, i |-> 0,
                                            found |-> IF remember THEN read.found ELSE {}]]
  /\ UNCHANGED <<courseExists, moduleColl, lectureColl, progressColl, now, last, percentage,
                 courseStats, created>>

\* part_003:150-155, 165-171 and authController.ts:467-472, 482-488: the 400
\* response of a call that was turned down
Respond(r) ==
  /\ calls[r].pc = "turnedDown"
  /\ calls' = [calls EXCEPT ![r] = Idle]
  /\ UNCHANGED <<courseExists, moduleColl, lectureColl, progressColl, now, last, percentage,
                 courseStats, created>>

\* The end of a pass of a reorder loop: the error of the write is thrown out
\* of the call, the call returns after the last pass, or the loop goes on.
ReorderPassEnds(r, written) ==
  IF written.error # "none" \/ calls[r].i + 1 = Len(calls[r].ids)
  THEN calls' = [calls EXCEPT ![r] = Idle]
  ELSE calls' = [calls EXCEPT ![r].i = @ + 1]

\* part_008:155-164 as a step of request r
ReorderModulesWrite(r) ==
  /\ calls[r].pc = "reorderModules"
  /\ LET written == ReorderModulesWriteResult(Db, calls[r].ids, calls[r].i + 1)
     IN /\ Store(written.db)
        /\ ReorderPassEnds(r, written)
  /\ UNCHANGED <<courseExists, progressColl, now, last, percentage, created>>

\* lectureService.ts:245-254 as a step of request r
ReorderLecturesWrite(r) ==
  /\ calls[r].pc = "reorderLectures"
  /\ LET written == ReorderLecturesWriteResult(Db, calls[r].ids, calls[r].i + 1)
     IN /\ Store(written.db)
        /\ ReorderPassEnds(r, written)
  /\ UNCHANGED <<courseExists, progressColl, now, last, percentage, created>>

\* A course just created: no module, no lecture, counters 0 (Course.ts
\* defaults), no progress recorded.
ContentInit ==
  /\ courseExists = TRUE
  /\ moduleColl = {}
  /\ lectureColl = {}
  /\ courseStats = [totalModules |-> 0, totalLectures |-> 0, totalDuration |-> 0]
  /\ created = [modules |-> 0, lectures |-> 0]
  /\ progressColl = {}
  /\ now = 1
  /\ last = Called("none", "ok")
  /\ calls = NoCalls
  /\ percentage = NoPercentage

\* An operation that is one step, its number, duration and isActive inputs
\* drawn from the given sets.
ContentOperation(numbers, durations, flags) ==
  \/ \E number \in numbers :
       \E hookFirst \in IF number = <<>> THEN BOOLEAN ELSE {TRUE} :
         CreateModule(number, hookFirst)
  \/ \E id \in ModuleRequestIds, number \in numbers, isActive \in flags :
       UpdateModule(id, number, isActive)
  \/ \E id \in ModuleRequestIds : DeleteModule(id)
  \/ \E id \in ModuleRequestIds, hookFirst \in BOOLEAN : DuplicateModule(id, hookFirst)
  \/ \E moduleId \in ModuleRequestIds, number \in numbers, duration \in durations :
       \E hookFirst \in IF number = <<>> THEN BOOLEAN ELSE {TRUE} :
         CreateLecture(moduleId, number, duration, hookFirst)
  \/ \E id \in LectureRequestIds, number \in numbers,
        duration \in {<<>>} \cup {<<d>> : d \in durations}, isActive \in flags :
       UpdateLecture(id, number, duration, isActive)
  \/ \E id \in LectureRequestIds : DeleteLecture(id)
  \/ \E id \in LectureRequestIds : DuplicateLecture(id, TRUE)

\* Content operations one at a time: a call starts when none is in flight.
SequentialNext(numbers, durations, flags) ==
  \/ calls = NoCalls /\ ContentOperation(numbers, durations, flags)
  \/ calls = NoCalls /\ \E ids \in ModuleIdLists : ReorderModulesBegin(1, ids, TRUE)
  \/ calls = NoCalls /\ \E moduleId \in ModuleRequestIds, ids \in LectureIdLists :
                          ReorderLecturesBegin(1, moduleId, ids, TRUE)
  \/ ReorderModulesWrite(1)
  \/ ReorderLecturesWrite(1)
  \/ Respond(1)

\* The lists of at most MaxListLength ids of the given documents.
ListsOf(docs) == UNION {[1..n -> {d.id : d \in docs}] : n \in 1..MaxListLength}

\* Content operations of concurrent requests: every request of Requests may
\* have a reorder in flight, whose writes interleave with those of the others
\* and with the operations that are one step.  The lists are of stored
\* documents.
ConcurrentNext(numbers, durations, flags) ==
  \/ ContentOperation(numbers, durations, flags)
  \/ \E r \in Requests :
       \/ \E ids \in ListsOf(moduleColl) : ReorderModulesBegin(r, ids, FALSE)
       \/ \E m \in moduleColl :
            \E ids \in ListsOf({l \in lectureColl : l.moduleId = m.id}) :
              ReorderLecturesBegin(r, m.id, ids, FALSE)
       \/ ReorderModulesWrite(r)
       \/ ReorderLecturesWrite(r)
       \/ Respond(r)

\* The requests of an instructor who arranges the content: numbers are given
\* or left to the model's hook, every lecture lasts one minute, isActive is
\* never sent.
UnitDurations == {1}
FlagsNotSent == {<<>>}

NumberingSpec ==
  ContentInit /\ [][SequentialNext(NumberInputs, UnitDurations, FlagsNotSent)]_vars

\* The numbers of concurrent requests: not sent, or one a reorder writes too.
ListNumbers == {<<>>} \cup {<<n>> : n \in 1..MaxListLength}

ConcurrentSpec ==
  ContentInit /\ [][ConcurrentNext(ListNumbers, UnitDurations, FlagsNotSent)]_vars

\* The requests of an instructor who never sends a number: durations and
\* isActive vary, numbers come from the model's hook and from reorders.
NumbersNotSent == {<<>>}

StatsSpec ==
  ContentInit /\ [][SequentialNext(NumbersNotSent, DurationInputs, IsActiveInputs)]_vars

\* The arranging instructor's course with a learner who enrols at some
\* moment: the Progress document is created once, from the content of that
\* moment.
Enrol ==
  /\ progressColl = {}
  /\ calls = NoCalls
  /\ InitializeProgress

AuthoringSpec ==
  ContentInit /\ [][SequentialNext(NumberInputs, UnitDurations, FlagsNotSent) \/ Enrol]_vars

----------------------------------------------------------------------------
\* A learner who takes the lectures of a one-module course in order: the
\* course has any number of lectures up to MaxTotalLectures, and every update
\* marks the next unlocked lecture completed.

LearnerInit ==
  /\ courseExists = TRUE
  /\ \E total \in 0..MaxTotalLectures :
       LET lectures == {[id |-> l, moduleId |-> 1, lectureNumber |-> l,
                         isActive |-> TRUE, duration |-> 1] : l \in 1..total}
           modules == {WithLectureStats([id |-> 1, moduleNumber |-> 1,
                                         isActive |-> TRUE], lectures)}
       IN /\ moduleColl = modules
          /\ lectureColl = lectures
          /\ courseStats = CalculateStats(modules, lectures)
          /\ created = [modules |-> 1, lectures |-> total]
  /\ progressColl = {}
  /\ now = 1
  /\ last = Called("none", "ok")
  /\ calls = NoCalls
  /\ percentage = NoPercentage

CompleteNextLecture ==
  /\ progressColl # {}
  /\ GetNextUnlockedLecture(Doc) # <<>>
  /\ UpdateLectureProgress(GetNextUnlockedLecture(Doc)[1], <<>>, <<TRUE>>)

LearnerNext == InitializeProgress \/ CompleteNextLecture

LearnerSpec == LearnerInit /\ [][LearnerNext]_vars

----------------------------------------------------------------------------
\* The record of a course of up to MaxLongCourse lectures, followed by its
\* counters alone: the learner completes one lecture after the other, and
\* every update recomputes the stored percentage from the two counts.

LongCourseInit ==
  /\ courseExists = TRUE
  /\ moduleColl = {}
  /\ lectureColl = {}
  /\ courseStats = [totalModules |-> 0, totalLectures |-> 0, totalDuration |-> 0]
  /\ created = [modules |-> 0, lectures |-> 0]
  /\ progressColl = {}
  /\ now = 1
  /\ last = Called("none", "ok")
  /\ calls = NoCalls
  /\ \E total \in 1..MaxLongCourse :
       percentage = [completedLectures |-> 0, totalLectures |-> total,
                     progressPercentage |-> 0]

\* updateLectureProgress marking one more lecture completed: the sum of the
\* modules' completedLectures grows by one and the percentage follows it.
CompleteOneMore ==
  /\ percentage.completedLectures < percentage.totalLectures
  /\ LET completedLectures == percentage.completedLectures + 1
     IN percentage' =
          [percentage EXCEPT
             !.completedLectures = completedLectures,
             !.progressPercentage =
                ProgressPercentage(completedLectures, percentage.totalLectures)]
  /\ UNCHANGED <<courseExists, moduleColl, lectureColl, progressColl, now, last,
                 courseStats, created, calls>>

LongCourseSpec == LongCourseInit /\ [][CompleteOneMore]_vars

----------------------------------------------------------------------------
\* The save of a lecture and the recounts it starts, step by step: a step
\* ends at an await of createLecture, duplicateLecture, updateCourseStats or
\* of the hooks and methods they run, where another request can run.

\* part_000:126-129  this.lectureCount and this.totalDuration set to the
\* counts read plus what the module stored, in place of the counts read.
AddLectureStats(modules, moduleId, stats, loaded) ==
  {IF m.id = moduleId
   THEN [m EXCEPT !.lectureCount = @ + stats.lectureCount,
                  !.totalDuration = @ + stats.totalDuration]
   ELSE m : m \in modules}

\* part_000:126-129  this.lectureCount and this.totalDuration set and saved:
\* a path set to a value other than the one the document was loaded with is
\* modified, and save() writes the modified paths and no other.
WriteLectureStats(modules, moduleId, stats, loaded) ==
  {IF m.id = moduleId
   THEN [m EXCEPT
           !.lectureCount = IF stats.lectureCount # loaded.lectureCount
                            THEN stats.lectureCount ELSE @,
           !.totalDuration = IF stats.totalDuration # loaded.totalDuration
                             THEN stats.totalDuration ELSE @]
   ELSE m : m \in modules}

\* Course.ts:140-144  the same for the three counters of the course
WriteCourseStats(stored, stats, loaded) ==
  [path \in DOMAIN stored |->
     IF stats[path] # loaded[path] THEN stats[path] ELSE stored[path]]

\* The counters of a Module document as findById loads them.
LoadedStats(modules, moduleId) ==
  LET m == CHOOSE d \in modules : d.id = moduleId
  IN [lectureCount |-> m.lectureCount, totalDuration |-> m.totalDuration]

NoStats == <<>>

\* A call that is about to save its new Lecture document.  explicit tells the
\* recount of the service method from the one of the post('save') hook,
\* stats and course hold what a recount has read and not yet written, loaded
\* the counters of the document that recount works on, module those of the
\* Module document createLecture looked up, first what the recounts of the
\* hook returned, recounts how many recounts ran.
LectureCall(op, moduleId, number, duration, isActive) ==
  [pc |-> "insert", op |-> op, moduleId |-> moduleId, number |-> number,
   duration |-> duration, isActive |-> isActive, lectureId |-> 0,
   explicit |-> FALSE, stats |-> NoStats, course |-> NoStats,
   loaded |-> NoStats, module |-> NoStats,
   first |-> [module |-> NoStats, course |-> NoStats],
   recounts |-> [module |-> 0, course |-> 0]]

\* The calls that have still to insert their document.
Inserting == Cardinality({r \in Requests : calls[r].pc = "insert"})

\* lectureService.ts:11-29  createLecture up to the save: module and course
\* are looked up, the document is built from the request.
CreateLectureBegin(r, moduleId, number, duration) ==
  /\ calls[r] = Idle
  /\ Inserted + Inserting < MaxCreated
  /\ calls' = [calls EXCEPT ![r] =
       IF ~\E m \in moduleColl : m.id = moduleId
       THEN TurnedDown("createLecture", "ModuleNotFound")
       ELSE IF ~courseExists THEN TurnedDown("createLecture", "CourseNotFound")
       ELSE [LectureCall("createLecture", moduleId, number, duration, TRUE)
               EXCEPT !.module = LoadedStats(moduleColl, moduleId)]]
  /\ UNCHANGED <<courseExists, moduleColl, lectureColl, progressColl, now, last,
                 percentage, courseStats, created>>

\* lectureService.ts:264-286  duplicateLecture up to the save: the original is
\* looked up, and the last lecture of its module for the number of the copy.
DuplicateLectureBegin(r, id) ==
  /\ calls[r] = Idle
  /\ Inserted + Inserting < MaxCreated
  /\ IF ~\E l \in lectureColl : l.id = id
     THEN calls' = [calls EXCEPT ![r] = TurnedDown("duplicateLecture", "LectureNotFound")]
     ELSE LET originalLecture == CHOOSE l \in lectureColl : l.id = id
              newLectureNumber ==
                NextLectureNumber(lectureColl, originalLecture.moduleId)
          IN /\ newLectureNumber <= MaxNumber
             /\ calls' = [calls EXCEPT ![r] =
                  LectureCall("duplicateLecture", originalLecture.moduleId,
                              newLectureNumber, originalLecture.duration,
                              originalLecture.isActive)]
  /\ UNCHANGED <<courseExists, moduleColl, lectureColl, progressColl, now, last,
                 percentage, courseStats, created>>

\* courseService.ts:227-236  updateCourseStats up to calculateStats
UpdateCourseStatsBegin(r) ==
  /\ calls[r] = Idle
  /\ courseExists
  /\ calls' = [calls EXCEPT ![r] =
       [LectureCall("updateCourseStats", 0, 0, 0, TRUE) EXCEPT
          !.pc = "courseRead", !.explicit = TRUE]]
  /\ UNCHANGED <<courseExists, moduleColl, lectureColl, progressColl, now, last,
                 percentage, courseStats, created>>

\* lectureService.ts:30 and 288  lecture.save(): the insert under the unique
\* index (Progress.ts:394); the post('save') hook is next.
InsertLecture(r) ==
  /\ calls[r].pc = "insert"
  /\ LET call == calls[r]
         id == created.lectures + 1
         lecture == [id |-> id, moduleId |-> call.moduleId,
                     lectureNumber |-> call.number, isActive |-> call.isActive,
                     duration |-> call.duration]
     IN IF ~LectureNumberFree(lectureColl, id, call.moduleId, call.number)
        THEN /\ calls' = [calls EXCEPT ![r] = TurnedDown(call.op, "DuplicateKey")]
             /\ UNCHANGED <<lectureColl, created>>
        ELSE /\ lectureColl' = lectureColl \cup {lecture}
             /\ created' = [created EXCEPT !.lectures = id]
             /\ calls' = [calls EXCEPT ![r].pc = "moduleRead", ![r].lectureId = id]
  /\ UNCHANGED <<courseExists, moduleColl, progressColl, now, last, percentage,
                 courseStats>>

\* A call that threw after it had stored the lecture lectureId.
Thrown(op, error, lectureId) ==
  [pc |-> "turnedDown", op |-> op, error |-> error, lectureId |-> lectureId]

\* part_000:110-124  calculateLectureStats up to its save: the aggregate over
\* the lectures, on the document the hook (Progress.ts:422) or duplicateLecture
\* (lectureService.ts:291) has just loaded or on the one createLecture looked
\* up before the save (lectureService.ts:12).  When the aggregate fails, the post('save') hook of the
\* lecture logs the error (Progress.ts:426-428) and the service method goes on
\* to its own recount; the service method rethrows it (lectureService.ts:36-38,
\* 297-299).
RecountModuleRead(r, fails) ==
  /\ calls[r].pc = "moduleRead"
  /\ calls[r].recounts.module < MaxRecounts
  /\ LET call == [calls[r] EXCEPT !.recounts.module = @ + 1]
     IN calls' = [calls EXCEPT ![r] =
          IF ~fails
          THEN [call EXCEPT !.pc = "moduleWrite",
                            !.stats = LectureStats(lectureColl, call.moduleId),
                            !.loaded = IF call.explicit /\ call.op = "createLecture"
                                       THEN call.module
                                       ELSE LoadedStats(moduleColl, call.moduleId)]
          ELSE IF call.explicit THEN Thrown(call.op, "RecountFailed", call.lectureId)
          ELSE [call EXCEPT !.explicit = TRUE]]
  /\ UNCHANGED <<courseExists, moduleColl, lectureColl, progressColl, now, last,
                 percentage, courseStats, created>>

\* part_000:126-129  the save of calculateLectureStats; the post('save') hook
\* of the module is next.
RecountModuleWrite(r) ==
  /\ calls[r].pc = "moduleWrite"
  /\ moduleColl' = WriteLectureStats(moduleColl, calls[r].moduleId, calls[r].stats,
                                     calls[r].loaded)
  /\ calls' = [calls EXCEPT
       ![r].pc = "courseRead",
       ![r].stats = NoStats,
       ![r].loaded = NoStats,
       ![r].first.module = IF calls[r].explicit THEN @ ELSE calls[r].stats]
  /\ UNCHANGED <<courseExists, lectureColl, progressColl, now, last, percentage,
                 courseStats, created>>

\* Course.ts:79-88: the pre('save') hook of the course sets the slug of a
\* course whose title changed and starts no recount, and the course has no
\* post('save') hook: after the save of calculateStats the module's
\* post('save') hook is over, and with it calculateLectureStats.  Here the
\* save of the course would run the recount of the module again.
AfterCourseSaveRecounting(call) ==
  IF call.op = "updateCourseStats" THEN Idle
  ELSE [call EXCEPT !.pc = "moduleRead", !.course = NoStats, !.loaded = NoStats]

\* Course.ts:79-88, part_000:84-94: what follows the save of calculateStats.
\* After the hook's recount the service method runs its own
\* (lectureService.ts:33, 291-294); after that one the call returns.
AfterCourseSave(call) ==
  IF call.explicit THEN Idle
  ELSE [call EXCEPT !.pc = "moduleRead", !.explicit = TRUE, !.course = NoStats,
                    !.loaded = NoStats]

\* Course.ts:118-137  calculateStats up to its save, on the Course document
\* just loaded (part_000:87, courseService.ts:229): the modules are counted
\* and the lectures aggregated, taken here as one read.  When it fails, the
\* post('save') hook of the module logs the error (part_000:91-93);
\* updateCourseStats rethrows it (courseService.ts:233-235).
RecountCourseRead(r, fails) ==
  /\ calls[r].pc = "courseRead"
  /\ calls[r].recounts.course < MaxRecounts
  /\ LET call == [calls[r] EXCEPT !.recounts.course = @ + 1]
     IN calls' = [calls EXCEPT ![r] =
          IF ~fails
          THEN [call EXCEPT !.pc = "courseWrite",
                            !.course = CalculateStats(moduleColl, lectureColl),
                            !.loaded = courseStats]
          ELSE IF call.op = "updateCourseStats"
               THEN Thrown(call.op, "RecountFailed", call.lectureId)
          ELSE AfterCourseSave(call)]
  /\ UNCHANGED <<courseExists, moduleColl, lectureColl, progressColl, now, last,
                 percentage, courseStats, created>>

\* Course.ts:140-144  the save of calculateStats
RecountCourseWrite(r) ==
  /\ calls[r].pc = "courseWrite"
  /\ courseStats' = WriteCourseStats(courseStats, calls[r].course, calls[r].loaded)
  /\ calls' = [calls EXCEPT ![r] =
       AfterCourseSave(
         [calls[r] EXCEPT
            !.first.course = IF calls[r].explicit THEN @ ELSE calls[r].course])]
  /\ UNCHANGED <<courseExists, moduleColl, lectureColl, progressColl, now, last,
                 percentage, created>>

\* A course with one module and no lecture.
CascadeInit ==
  /\ courseExists = TRUE
  /\ moduleColl = {[id |-> 1, moduleNumber |-> 1, isActive |-> TRUE,
                    lectureCount |-> 0, totalDuration |-> 0]}
  /\ lectureColl = {}
  /\ courseStats = [totalModules |-> 1, totalLectures |-> 0, totalDuration |-> 0]
  /\ created = [modules |-> 1, lectures |-> 0]
  /\ progressColl = {}
  /\ now = 1
  /\ last = Called("none", "ok")
  /\ calls = NoCalls
  /\ percentage = NoPercentage

CascadeBegin(r) ==
  \/ \E moduleId \in ModuleRequestIds, number \in 1..MaxListLength :
       CreateLectureBegin(r, moduleId, number, 1)
  \/ \E id \in LectureRequestIds : DuplicateLectureBegin(r, id)
  \/ UpdateCourseStatsBegin(r)

CascadeStep(r, failures) ==
  \/ InsertLecture(r)
  \/ \E fails \in failures : RecountModuleRead(r, fails)
  \/ RecountModuleWrite(r)
  \/ \E fails \in failures : RecountCourseRead(r, fails)
  \/ RecountCourseWrite(r)
  \/ Respond(r)

CascadeNext(requests, failures) ==
  \E r \in requests : CascadeBegin(r) \/ CascadeStep(r, failures)

NoFailure == {FALSE}

\* One request at a time, every read of the store succeeding.
RecountSpec == CascadeInit /\ [][CascadeNext({1}, NoFailure)]_vars

\* The same with a server that goes on with every call it has begun.
RecountFairSpec == RecountSpec /\ WF_vars(CascadeStep(1, NoFailure))

\* One request at a time, the reads of the recounts failing or not.
FailingRecountSpec == CascadeInit /\ [][CascadeNext({1}, BOOLEAN)]_vars

\* Concurrent requests, every read of the store succeeding.
RacingSpec == CascadeInit /\ [][CascadeNext(Requests, NoFailure)]_vars

\* A course with one module and one lecture in it.
DuplicatingInit ==
  /\ courseExists = TRUE
  /\ moduleColl = {[id |-> 1, moduleNumber |-> 1, isActive |-> TRUE,
                    lectureCount |-> 1, totalDuration |-> 1]}
  /\ lectureColl = {[id |-> 1, moduleId |-> 1, lectureNumber |-> 1,
                     isActive |-> TRUE, duration |-> 1]}
  /\ courseStats = [totalModules |-> 1, totalLectures |-> 1, totalDuration |-> 1]
  /\ created = [modules |-> 1, lectures |-> 1]
  /\ progressColl = {}
  /\ now = 1
  /\ last = Called("none", "ok")
  /\ calls = NoCalls
  /\ percentage = NoPercentage

\* Concurrent requests that all duplicate lectures: every number is one that
\* a duplicateLecture call has computed.
DuplicatingNext ==
  \E r \in Requests :
    \/ \E id \in LectureRequestIds : DuplicateLectureBegin(r, id)
    \/ CascadeStep(r, NoFailure)

DuplicatingSpec == DuplicatingInit /\ [][DuplicatingNext]_vars

----------------------------------------------------------------------------
\* updateLectureProgress of concurrent requests of one learner: the findOne
\* of the service and the save() of the document method are separate awaits.

\* Progress.ts:250  this.save() of a document that was loaded as `loaded` and
\* is now `copy`: Mongoose writes the paths whose value was changed, with $set,
\* and leaves every other path of the stored document as it is.  The entries
\* of `modules` and of their `lectures` are written by their index.
SaveModifiedPaths(stored, loaded, copy) ==
  [path \in DOMAIN stored |->
     IF copy[path] # loaded[path] THEN copy[path] ELSE stored[path]]

SaveModifiedModule(stored, loaded, copy) ==
  [SaveModifiedPaths(stored, loaded, copy) EXCEPT
     !.lectures = [i \in 1..Len(stored.lectures) |->
                     SaveModifiedPaths(stored.lectures[i], loaded.lectures[i],
                                       copy.lectures[i])]]

SaveModifiedDoc(stored, loaded, copy) ==
  [SaveModifiedPaths(stored, loaded, copy) EXCEPT
     !.modules = [k \in 1..Len(stored.modules) |->
                    SaveModifiedModule(stored.modules[k], loaded.modules[k],
                                       copy.modules[k])]]

\* part_007:42  Progress.findOne of request r, which finds the record
UpdateLectureProgressBegin(r, lectureId, isCompleted) ==
  /\ calls[r] = Idle
  /\ progressColl # {}
  /\ calls' = [calls EXCEPT ![r] =
       [pc |-> "progressSave", loaded |-> Doc, lectureId |-> lectureId,
        isCompleted |-> isCompleted]]
  /\ UNCHANGED <<courseExists, moduleColl, lectureColl, progressColl, now, last,
                 percentage, courseStats, created>>

\* part_007:50-54, Progress.ts:182-251  the document method on the record as
\* it was found, and its save
UpdateLectureProgressSave(r) ==
  /\ calls[r].pc = "progressSave"
  /\ LET call == calls[r]
         updated == UpdateLectureProgressMethod(call.loaded, call.lectureId, <<>>,
                                                <<call.isCompleted>>, now)
     IN /\ progressColl' = IF updated.thrown THEN progressColl
                           ELSE {SaveModifiedDoc(Doc, call.loaded, updated.doc)}
        /\ last' = Called("update", IF updated.thrown THEN "LectureNotFound" ELSE "ok")
  /\ calls' = [calls EXCEPT ![r] = Idle]
  /\ UNCHANGED <<courseExists, moduleColl, lectureColl, now, percentage,
                 courseStats, created>>

\* A course of two modules, the first with two lectures and the second with
\* one, and a learner with no record of it.
InterleavingInit ==
  /\ courseExists = TRUE
  /\ LET lectures == {[id |-> l, moduleId |-> IF l = 3 THEN 2 ELSE 1,
                       lectureNumber |-> IF l = 3 THEN 1 ELSE l,
                       isActive |-> TRUE, duration |-> 1] : l \in 1..3}
         modules == {WithLectureStats([id |-> m, moduleNumber |-> m,
                                       isActive |-> TRUE], lectures) : m \in 1..2}
     IN /\ moduleColl = modules
        /\ lectureColl = lectures
        /\ courseStats = CalculateStats(modules, lectures)
  /\ created = [modules |-> 2, lectures |-> 3]
  /\ progressColl = {}
  /\ now = 1
  /\ last = Called("none", "ok")
  /\ calls = NoCalls
  /\ percentage = NoPercentage

\* The learner enrols, and then marks lectures completed from concurrent
\* requests.
InterleavingNext ==
  \/ Enrol
  \/ \E r \in Requests :
       \/ \E lectureId \in RequestLectureIds :
            UpdateLectureProgressBegin(r, lectureId, TRUE)
       \/ UpdateLectureProgressSave(r)

InterleavingSpec == InterleavingInit /\ [][InterleavingNext]_vars

----------------------------------------------------------------------------
\* Properties.

\* The lecture entries of a document in flattened order.
RECURSIVE Flatten(_)
Flatten(modules) ==
  IF modules = <<>> THEN <<>> ELSE Head(modules).lectures \o Flatten(Tail(modules))

CountCompleted(lectures) ==
  Cardinality({i \in 1..Len(lectures) : lectures[i].isCompleted})

AllCompleted(p) ==
  \A i \in 1..Len(Flatten(p.modules)) : Flatten(p.modules)[i].isCompleted

\* The position of a lecture in the flattened order; 0 when it is not there.
Position(p, lectureId) ==
  LET flat == Flatten(p.modules)
  IN IF \E i \in 1..Len(flat) : flat[i].lectureId = lectureId
     THEN CHOOSE i \in 1..Len(flat) : flat[i].lectureId = lectureId
     ELSE 0

SnapshotLectureIds(p) ==
  {Flatten(p.modules)[i].lectureId : i \in 1..Len(Flatten(p.modules))}

\* n / d rounded to the nearest integer, a half going up (n >= 0, d > 0).
RoundHalfUp(n, d) == (2 * n + d) \div (2 * d)

\* C1: in every stored progress document each module entry's completedLectures
\* is the number of its lecture entries marked completed, and the document's
\* completedLectures is the sum of the module entries' completedLectures.
C1_CompletedCounts ==
  \A p \in progressColl :
    /\ \A k \in 1..Len(p.modules) :
         p.modules[k].completedLectures = CountCompleted(p.modules[k].lectures)
    /\ p.completedLectures =
         SumSeq([k \in 1..Len(p.modules) |-> p.modules[k].completedLectures])

\* C1 witness: an update has succeeded on a document of two modules that has
\* completed lectures in both.
C1_Witness ==
  /\ last = Called("update", "ok")
  /\ \E p \in progressColl :
       /\ Len(p.modules) = 2
       /\ \A k \in 1..2 : CountCompleted(p.modules[k].lectures) >= 1

\* C2: a module entry is completed exactly when all of its lectures, at least
\* one, are completed; completedModules counts the completed module entries;
\* the document is completed exactly when all of its modules, at least one, are.
C2_CompletionFlags ==
  \A p \in progressColl :
    /\ \A k \in 1..Len(p.modules) :
         p.modules[k].isCompleted <=>
           (p.modules[k].completedLectures = p.modules[k].totalLectures
            /\ p.modules[k].totalLectures > 0)
    /\ p.completedModules =
         Cardinality({k \in 1..Len(p.modules) : p.modules[k].isCompleted})
    /\ p.isCompleted <=>
         (p.completedModules = p.totalModules /\ p.totalModules > 0)

\* C2 witness: after an update, a document with a completed module next to a
\* module that has no lectures.
C2_Witness ==
  /\ last = Called("update", "ok")
  /\ \E p \in progressColl :
       /\ \E k \in 1..Len(p.modules) : p.modules[k].isCompleted
       /\ \E k \in 1..Len(p.modules) : p.modules[k].totalLectures = 0

\* C3: progressPercentage is completedLectures / totalLectures * 100 rounded
\* half up, 0 when there are no lectures, and an integer in 0..100.
C3_Percentage ==
  \A p \in progressColl :
    /\ p.progressPercentage \in 0..100
    /\ p.progressPercentage =
         IF p.totalLectures > 0
         THEN RoundHalfUp(p.completedLectures * 100, p.totalLectures)
         ELSE 0

\* The first lecture entry not completed, in flattened order.
FirstIncomplete(p) ==
  LET flat == Flatten(p.modules)
      open == {i \in 1..Len(flat) : ~flat[i].isCompleted}
  IN IF open = {} THEN <<>>
     ELSE <<flat[CHOOSE i \in open : \A j \in open : i <= j].lectureId>>

\* C4: getNextUnlockedLecture returns the first lecture entry not completed in
\* flattened order, null exactly when every entry is completed, and never
\* through the branch that returns the preceding lecture.
C4_NextIsFirstIncomplete ==
  \A p \in progressColl :
    /\ GetNextUnlockedLecture(p) = FirstIncomplete(p)
    /\ GetNextUnlockedLecture(p) = <<>> <=> AllCompleted(p)
    /\ ScanModules(p.modules, 1).branch # "previous"

\* C4 witness: the next unlocked lecture is the first lecture of the second
\* module, the first module being completed.
C4_Witness ==
  \E p \in progressColl :
    /\ Len(p.modules) = 2
    /\ p.modules[1].isCompleted
    /\ p.modules[2].totalLectures > 0
    /\ GetNextUnlockedLecture(p) = <<p.modules[2].lectures[1].lectureId>>

\* C5: a lecture is reported unlocked only if every lecture before it in the
\* snapshot is completed.
C5_SequentialUnlock ==
  \A p \in progressColl : \A l \in SnapshotLectureIds(p) :
    IsLectureUnlocked(p, l) =>
      \A i \in 1..(Position(p, l) - 1) : Flatten(p.modules)[i].isCompleted

\* C6: while some lecture is not completed, isLectureUnlocked is true for the
\* lectures at or before the next unlocked one and is the lecture's own
\* isCompleted flag for the lectures after it.
C6_UnlockedByPosition ==
  \A p \in progressColl :
    GetNextUnlockedLecture(p) # <<>> =>
      \A l \in SnapshotLectureIds(p) :
        IsLectureUnlocked(p, l) =
          IF Position(p, l) <= Position(p, GetNextUnlockedLecture(p)[1])
          THEN TRUE
          ELSE Flatten(p.modules)[Position(p, l)].isCompleted

\* C7: once every lecture of a snapshot that has lectures is completed, the
\* document is completed at 100 percent, no lecture is next and every lecture
\* is unlocked.
C7_AllCompleted ==
  \A p \in progressColl :
    (p.totalLectures > 0 /\ AllCompleted(p)) =>
      /\ p.isCompleted
      /\ p.progressPercentage = 100
      /\ GetNextUnlockedLecture(p) = <<>>
      /\ \A l \in SnapshotLectureIds(p) : IsLectureUnlocked(p, l)

\* The document an update call works on: the stored one, or the one
\* initializeProgress creates when none is stored.
DocBeforeUpdate ==
  IF progressColl = {} THEN InitializeForCourse({}, now) ELSE Doc

IsCompletedIn(p, lectureId) ==
  \E i \in 1..Len(Flatten(p.modules)) :
    /\ Flatten(p.modules)[i].lectureId = lectureId
    /\ Flatten(p.modules)[i].isCompleted

\* C8: an update moves a lecture to completed only if isLectureUnlocked was
\* true for it when the update was called.
C8_CompletesOnlyUnlocked ==
  [][last' = Called("update", "ok") =>
       \A l \in LectureIds :
         (IsCompletedIn(Doc', l) /\ ~IsCompletedIn(DocBeforeUpdate, l)) =>
           IsLectureUnlocked(DocBeforeUpdate, l)]_vars

ActiveModuleIds == {m.id : m \in {d \in moduleColl : d.isActive}}

ActiveLectureIdsOf(moduleId) ==
  {l.id : l \in {d \in lectureColl : d.isActive /\ d.moduleId = moduleId}}

ModuleNumberOf(moduleId) ==
  (CHOOSE m \in moduleColl : m.id = moduleId).moduleNumber

LectureNumberOf(lectureId) ==
  (CHOOSE l \in lectureColl : l.id = lectureId).lectureNumber

\* p holds exactly the active modules by moduleNumber, each with exactly its
\* active lectures by lectureNumber.
MirrorsStore(p) ==
  /\ {p.modules[k].moduleId : k \in 1..Len(p.modules)} = ActiveModuleIds
  /\ Len(p.modules) = Cardinality(ActiveModuleIds)
  /\ \A j, k \in 1..Len(p.modules) :
       j < k => ModuleNumberOf(p.modules[j].moduleId)
                  < ModuleNumberOf(p.modules[k].moduleId)
  /\ \A k \in 1..Len(p.modules) :
       LET ls == p.modules[k].lectures
       IN /\ {ls[i].lectureId : i \in 1..Len(ls)}
               = ActiveLectureIdsOf(p.modules[k].moduleId)
          /\ Len(ls) = Cardinality(ActiveLectureIdsOf(p.modules[k].moduleId))
          /\ \A i, j \in 1..Len(ls) :
               i < j => LectureNumberOf(ls[i].lectureId)
                          < LectureNumberOf(ls[j].lectureId)

C10_FailureLeavesStore ==
  [][(last'.op \in {"initialize", "reset", "update"}
      /\ last'.outcome \in {"CourseNotFound", "LectureNotFound"})
     => progressColl' = progressColl]_vars

----------------------------------------------------------------------------
\* Properties of the content operations.

\* C11: a step that changes the content store (a module, a lecture, the
\* course counters) or moves a content call leaves every Progress document
\* as it was.
C11_ContentLeavesProgress ==
  [][(moduleColl' # moduleColl \/ lectureColl' # lectureColl
      \/ courseStats' # courseStats \/ calls' # calls)
     => progressColl' = progressColl]_vars

\* C11 witness: a learner's document still lists a lecture that has been
\* deleted since.
C11_Witness ==
  /\ progressColl # {}
  /\ \E id \in SnapshotLectureIds(Doc) : ~\E l \in lectureColl : l.id = id

\* The ids are an ordering of all the given documents.
IsOrderingOfAll(ids, docs) ==
  /\ Len(ids) = Cardinality(docs)
  /\ {ids[k] : k \in 1..Len(ids)} = {d.id : d \in docs}

\* Every listed module (lecture) is stored with its position in the list,
\* counted from 1, as its number.
ModulesInOrder(modules, ids) ==
  \A k \in 1..Len(ids) : \E m \in modules : m.id = ids[k] /\ m.moduleNumber = k

LecturesInOrder(lectures, ids) ==
  \A k \in 1..Len(ids) : \E l \in lectures : l.id = ids[k] /\ l.lectureNumber = k

\* The call of request r is over with this step.
Returns(r) == calls[r] # Idle /\ calls'[r] = Idle

\* C12: a reorder whose list is an ordering of all modules of the course (all
\* lectures of the module) ends with every listed document numbered by its
\* position in the list.
C12_ReorderAppliesOrdering ==
  [][\A r \in Requests :
       /\ (calls[r].pc = "reorderModules" /\ Returns(r)
           /\ IsOrderingOfAll(calls[r].ids, moduleColl))
          => ModulesInOrder(moduleColl', calls[r].ids)
       /\ (calls[r].pc = "reorderLectures" /\ Returns(r)
           /\ IsOrderingOfAll(calls[r].ids,
                              {l \in lectureColl : l.moduleId = calls[r].parent}))
          => LecturesInOrder(lectureColl', calls[r].ids)]_vars

\* The moduleNumbers of the course are 1..N for its N modules.
GaplessModules(modules) ==
  {m.moduleNumber : m \in modules} = 1..Cardinality(modules)

\* The lectureNumbers of every module are 1..K for its K lectures.
GaplessLectures(modules, lectures) ==
  \A m \in modules :
    {l.lectureNumber : l \in {x \in lectures : x.moduleId = m.id}}
      = 1..Cardinality({x \in lectures : x.moduleId = m.id})

\* The reorderModules call of request r returns its documents with this step:
\* the last pass of its loop, its write not turned down.
ReorderModulesSucceeds(r) ==
  /\ calls[r].pc = "reorderModules"
  /\ calls[r].i + 1 = Len(calls[r].ids)
  /\ ReorderModulesWriteResult(Db, calls[r].ids, calls[r].i + 1).error = "none"
  /\ Returns(r)

ReorderLecturesSucceeds(r) ==
  /\ calls[r].pc = "reorderLectures"
  /\ calls[r].i + 1 = Len(calls[r].ids)
  /\ ReorderLecturesWriteResult(Db, calls[r].ids, calls[r].i + 1).error = "none"
  /\ Returns(r)

\* C13: when a reorderModules call returns successfully, the moduleNumbers of
\* the course are exactly 1..N, N the number of its modules.
C13_ReorderLeavesNoGap ==
  [][\A r \in Requests : ReorderModulesSucceeds(r) => GaplessModules(moduleColl')]_vars

\* C14: whenever no content call is in flight, the moduleNumbers of the
\* course are 1..N and the lectureNumbers of every module are 1..K.
C14_GaplessNumbering ==
  calls = NoCalls =>
    GaplessModules(moduleColl) /\ GaplessLectures(moduleColl, lectureColl)

\* C15: in every stored state, between the writes of concurrent calls too, no
\* two modules of the course have the same moduleNumber and no two lectures
\* of a module the same lectureNumber.
C15_UniqueNumbers ==
  /\ \A m1, m2 \in moduleColl : m1.moduleNumber = m2.moduleNumber => m1.id = m2.id
  /\ \A l1, l2 \in lectureColl :
       (l1.moduleId = l2.moduleId /\ l1.lectureNumber = l2.lectureNumber)
         => l1.id = l2.id

\* C15 witness: two reorderModules calls are in flight, each after its first
\* write, and the two have written the number 1 to different modules.
C15_Witness ==
  /\ \A r \in Requests : calls[r].pc = "reorderModules" /\ calls[r].i = 1
  /\ calls[1].ids[1] # calls[2].ids[1]

\* The reorder call of request r is thrown out of its loop with this step,
\* after at least one of its writes.
ReorderModulesFailsMidway(r) ==
  /\ calls[r].pc = "reorderModules"
  /\ calls[r].i >= 1
  /\ ReorderModulesWriteResult(Db, calls[r].ids, calls[r].i + 1).error # "none"
  /\ Returns(r)

ReorderLecturesFailsMidway(r) ==
  /\ calls[r].pc = "reorderLectures"
  /\ calls[r].i >= 1
  /\ ReorderLecturesWriteResult(Db, calls[r].ids, calls[r].i + 1).error # "none"
  /\ Returns(r)

\* Every document the call found has the number it was found with.
ModulesAsFound(modules, found) ==
  \A f \in found : \E m \in modules : m.id = f[1] /\ m.moduleNumber = f[2]

LecturesAsFound(lectures, found) ==
  \A f \in found : \E l \in lectures : l.id = f[1] /\ l.lectureNumber = f[2]

\* C16: a reorder that fails after some of its writes leaves every listed
\* document with the number it had before the call, or every listed document
\* with the number of the requested order.
C16_NoPartialRenumbering ==
  [][\A r \in Requests :
       /\ ReorderModulesFailsMidway(r)
          => \/ ModulesAsFound(moduleColl', calls[r].found)
             \/ ModulesInOrder(moduleColl', calls[r].ids)
       /\ ReorderLecturesFailsMidway(r)
          => \/ LecturesAsFound(lectureColl', calls[r].found)
             \/ LecturesInOrder(lectureColl', calls[r].ids)]_vars

\* The errors answered with 400 Bad Request (part_003:150-155, 165-171;
\* authController.ts:467-472, 482-488).
ValidationErrors ==
  {"EmptyList", "CourseNotFound", "NotInCourse", "ModuleNotFound", "NotInModule"}

\* Some id of the list is the id of none of the given documents.
HasForeignId(ids, docs) ==
  \E k \in 1..Len(ids) : ~\E d \in docs : d.id = ids[k]

\* C17: a reorderModules (reorderLectures) call whose list is empty or holds
\* an id that is not of a module of the course (a lecture of the module) is
\* turned down with a validation error, and the collections are as before.
C17_ReorderTurnedDown ==
  [][\A r \in Requests :
       /\ \A ids \in ModuleIdLists :
            ((ids = <<>> \/ HasForeignId(ids, moduleColl))
             /\ ReorderModulesBegin(r, ids, TRUE))
            => /\ calls'[r].pc = "turnedDown"
               /\ calls'[r].error \in ValidationErrors
               /\ moduleColl' = moduleColl
       /\ \A moduleId \in ModuleRequestIds, ids \in LectureIdLists :
            ((ids = <<>>
              \/ HasForeignId(ids, {l \in lectureColl : l.moduleId = moduleId}))
             /\ ReorderLecturesBegin(r, moduleId, ids, TRUE))
            => /\ calls'[r].pc = "turnedDown"
               /\ calls'[r].error \in ValidationErrors
               /\ lectureColl' = lectureColl]_vars

\* C17 witness: a reorderModules call on a course with modules has been
\* turned down because an id of its list is of no module of the course.
C17_Witness ==
  /\ calls[1] = TurnedDown("reorderModules", "NotInCourse")
  /\ moduleColl # {}

\* The documents with their number fields left out.
ModulesButNumbers(modules) ==
  {[id |-> m.id, isActive |-> m.isActive, lectureCount |-> m.lectureCount,
    totalDuration |-> m.totalDuration] : m \in modules}

LecturesButNumbers(lectures) ==
  {[id |-> l.id, moduleId |-> l.moduleId, isActive |-> l.isActive,
    duration |-> l.duration] : l \in lectures}

\* C18: a step of a reorderModules or reorderLectures call changes nothing
\* but moduleNumber and lectureNumber fields: the counters of every module
\* and of the course are as before.
C18_ReorderKeepsCounters ==
  [][\A r \in Requests :
       (calls'[r] # calls[r]
        /\ (calls[r].pc \in {"reorderModules", "reorderLectures"}
            \/ calls'[r].pc \in {"reorderModules", "reorderLectures"}))
       => /\ courseStats' = courseStats
          /\ ModulesButNumbers(moduleColl') = ModulesButNumbers(moduleColl)
          /\ LecturesButNumbers(lectureColl') = LecturesButNumbers(lectureColl)]_vars

\* C18 witness: a reorderLectures call has given a lecture a new number in a
\* module whose lectureCount is not the count of its active lectures.
C18_Witness ==
  /\ calls[1].pc = "reorderLectures"
  /\ \E f \in calls[1].found : \E l \in lectureColl :
       l.id = f[1] /\ l.lectureNumber # f[2]
  /\ \E m \in moduleColl :
       /\ m.id = calls[1].parent
       /\ m.lectureCount # LectureStats(lectureColl, m.id).lectureCount

\* The stored counters of the module are those calculateLectureStats would
\* store now; nothing is asked of a module that is not stored.
FreshModule(modules, lectures, id) ==
  \A m \in modules : m.id = id => m = WithLectureStats(m, lectures)

\* The stored counters of the course are those calculateStats would store.
FreshCourse(modules, lectures, stats) == stats = CalculateStats(modules, lectures)

\* createLecture or duplicateLecture has returned a new lecture: its module
\* and the course have fresh counters.
FreshAfterNewLecture ==
  (created'.lectures = created.lectures + 1 /\ created'.modules = created.modules)
  => /\ \A l \in lectureColl' :
          l.id = created'.lectures => FreshModule(moduleColl', lectureColl', l.moduleId)
     /\ FreshCourse(moduleColl', lectureColl', courseStats')

\* createModule or duplicateModule has returned a new module: it and the
\* course have fresh counters.
FreshAfterNewModule ==
  created'.modules = created.modules + 1
  => /\ FreshModule(moduleColl', lectureColl', created'.modules)
     /\ FreshCourse(moduleColl', lectureColl', courseStats')

\* updateLecture has changed the duration of a lecture.
FreshAfterNewDuration ==
  \A l \in lectureColl, u \in lectureColl' :
    (l.id = u.id /\ l.duration # u.duration)
    => /\ FreshModule(moduleColl', lectureColl', l.moduleId)
       /\ FreshCourse(moduleColl', lectureColl', courseStats')

\* The lecture is deleted by this step, its module is not.
LectureDeleted(l) ==
  /\ l \in lectureColl
  /\ ~\E u \in lectureColl' : u.id = l.id
  /\ \E m \in moduleColl' : m.id = l.moduleId

\* deleteLecture has deleted a lecture: fresh counters, and when the lecture
\* was active its module and the course count one lecture and its duration
\* less than before.
FreshAfterDeleteLecture ==
  \A l \in lectureColl :
    LectureDeleted(l)
    => /\ FreshModule(moduleColl', lectureColl', l.moduleId)
       /\ FreshCourse(moduleColl', lectureColl', courseStats')
       /\ l.isActive =>
            /\ \A m \in moduleColl, u \in moduleColl' :
                 (m.id = l.moduleId /\ u.id = l.moduleId)
                 => /\ u.lectureCount = m.lectureCount - 1
                    /\ u.totalDuration = m.totalDuration - l.duration
            /\ courseStats'.totalLectures = courseStats.totalLectures - 1
            /\ courseStats'.totalDuration = courseStats.totalDuration - l.duration

\* deleteModule has deleted a module.
FreshAfterDeleteModule ==
  (\E m \in moduleColl : ~\E u \in moduleColl' : u.id = m.id)
  => FreshCourse(moduleColl', lectureColl', courseStats')

\* C19: with the operations run one at a time, a step that creates,
\* duplicates or deletes a lecture or a module, or changes the duration of a
\* lecture, leaves the counters of the module concerned and of the course
\* equal to a recount of the stored documents; the deletion of an active
\* lecture of duration d lowers the lecture counts of its module and of the
\* course by 1 and their durations by d.
C19_CountersFollowContent ==
  [][/\ FreshAfterNewLecture
     /\ FreshAfterNewModule
     /\ FreshAfterNewDuration
     /\ FreshAfterDeleteLecture
     /\ FreshAfterDeleteModule]_vars

\* The course counters as the active modules and their active lectures give
\* them: a lecture counts when it is active and its module is.
StatsOfActiveModules(modules, lectures) ==
  LET counted == {l \in lectures :
                    l.isActive /\ \E m \in modules : m.id = l.moduleId /\ m.isActive}
  IN [totalModules |-> Cardinality({m \in modules : m.isActive}),
      totalLectures |-> Cardinality(counted),
      totalDuration |-> SumDuration(counted)]

\* A step that ends with calculateStats of the course: a document has been
\* inserted or deleted.
CourseRecounted ==
  \/ created' # created
  \/ \E m \in moduleColl : ~\E u \in moduleColl' : u.id = m.id
  \/ \E l \in lectureColl : ~\E u \in lectureColl' : u.id = l.id

\* C20: after a recount of the course, totalModules is the number of its
\* active modules, and totalLectures and totalDuration are the count and the
\* duration sum of the active lectures of those active modules.
C20_CourseCountsActiveModules ==
  [][CourseRecounted
     => courseStats' = StatsOfActiveModules(moduleColl', lectureColl')]_vars

\* C27: whenever no content call is in flight, the counters of every module
\* and of the course are those a recount of the stored documents gives.
C27_CountersAlwaysFresh ==
  calls = NoCalls =>
    /\ \A m \in moduleColl : FreshModule(moduleColl, lectureColl, m.id)
    /\ FreshCourse(moduleColl, lectureColl, courseStats)

\* The lectures of a module.
LecturesOf(lectures, moduleId) == {l \in lectures : l.moduleId = moduleId}

\* The module new is a copy of the stored module id made by this step: it
\* comes after the last module, every active lecture of the source has one
\* copy with its lectureNumber, and nothing else is in the copy.
IsCopyOf(new, id) ==
  LET sources == {l \in LecturesOf(lectureColl, id) : l.isActive}
      copies == LecturesOf(lectureColl', new.id)
  IN /\ new.moduleNumber = NextModuleNumber(moduleColl)
     /\ Cardinality(copies) = Cardinality(sources)
     /\ {l.lectureNumber : l \in copies} = {l.lectureNumber : l \in sources}

\* C25: duplicateModule of a stored module adds one module, numbered after
\* the last one, that holds one copy of every active lecture of the source,
\* with the same lectureNumber, and no copy of an inactive one; the modules
\* and lectures stored before are unchanged and the course counters are
\* recounted.  For an id of no module nothing is created.
C25_DuplicateModuleCopies ==
  [][\A id \in ModuleRequestIds, hookFirst \in BOOLEAN :
       DuplicateModule(id, hookFirst)
       => IF \E m \in moduleColl : m.id = id
          THEN /\ \E new \in moduleColl' :
                    /\ moduleColl' = moduleColl \cup {new}
                    /\ new.id = created'.modules
                    /\ created'.modules = created.modules + 1
                    /\ IsCopyOf(new, id)
               /\ lectureColl \subseteq lectureColl'
               /\ FreshCourse(moduleColl', lectureColl', courseStats')
          ELSE /\ moduleColl' = moduleColl
               /\ lectureColl' = lectureColl
               /\ created' = created]_vars

\* C28: for every totalLectures >= 1 and every completedLectures in
\* 0..totalLectures, the stored progressPercentage is 100 only if every
\* lecture is completed, and is 0 only if none is.
C28_PercentageEndsAreExact ==
  percentage.totalLectures >= 1 =>
    /\ percentage.progressPercentage = 100
         => percentage.completedLectures = percentage.totalLectures
    /\ percentage.progressPercentage = 0
         => percentage.completedLectures = 0

\* completedAt is set exactly when isCompleted is true.
StampedWhenCompleted(entry) == (entry.completedAt # <<>>) <=> entry.isCompleted

\* C26: in every state reached through initializeProgress (of a new or an
\* existing record), updateLectureProgress and resetProgress, completedAt is
\* set exactly when isCompleted is true on every lecture entry, on every module
\* entry and on the record itself.
C26_CompletedAtFollowsIsCompleted ==
  \A p \in progressColl :
    /\ StampedWhenCompleted(p)
    /\ \A k \in 1..Len(p.modules) :
         /\ StampedWhenCompleted(p.modules[k])
         /\ \A i \in 1..Len(p.modules[k].lectures) :
              StampedWhenCompleted(p.modules[k].lectures[i])

\* Every call has returned and every recount it started is over.
Quiescent == \A r \in Requests : calls[r] = Idle

\* C22: under any interleaving of concurrent lecture saves and recounts, once
\* every call and its cascade is over, lectureCount and totalDuration of every
\* module and totalModules, totalLectures and totalDuration of the course are
\* the values derived from the stored lectures and modules.
C22_RacesLeaveNoStaleCounter ==
  Quiescent =>
    /\ \A m \in moduleColl : LectureStats(lectureColl, m.id) =
         [lectureCount |-> m.lectureCount, totalDuration |-> m.totalDuration]
    /\ courseStats = CalculateStats(moduleColl, lectureColl)

\* C29: of two duplications of lectures of one module that run concurrently,
\* each numbering its copy with the current maximum + 1, neither is turned
\* down: both copies are stored, under distinct numbers.
C29_ConcurrentNumberingSucceeds ==
  \A r \in Requests :
    calls[r].pc = "turnedDown" /\ calls[r].op = "duplicateLecture"
      => calls[r].error # "DuplicateKey"

\* C23: a call whose recount fails after its lecture has been stored still
\* returns without an error: no call that stored a lecture is answered with
\* the error of a recount.
C23_RecountFailureNotReturned ==
  \A r \in Requests :
    calls[r].pc = "turnedDown" /\ calls[r].error = "RecountFailed"
      => calls[r].lectureId = 0

\* The recount of the service method follows the one of the hook, which
\* has returned values: both ran on the same lectures and modules when no
\* other request is served in between.
SecondRecount(r) == calls[r].explicit /\ calls[r].first.module # NoStats

\* C21: calculateLectureStats and calculateStats are idempotent: run a second
\* time with no content mutation in between, each returns the values it
\* returned the first time and leaves the stored counters of the module and
\* of the course as they were.
C21_RecountIdempotent ==
  [][\A r \in Requests :
       /\ RecountModuleWrite(r) /\ SecondRecount(r)
            => /\ calls[r].stats = calls[r].first.module
               /\ moduleColl' = moduleColl
       /\ RecountCourseWrite(r) /\ SecondRecount(r)
            => /\ calls[r].course = calls[r].first.course
               /\ courseStats' = courseStats]_vars

\* A second recount of the course is about to be saved, after a first one
\* that changed the counters of the module and of the course and a second
\* recount of the module.
C21_Witness ==
  \E r \in Requests :
    /\ calls[r].pc = "courseWrite"
    /\ SecondRecount(r)
    /\ calls[r].recounts = [module |-> 2, course |-> 2]
    /\ calls[r].first.module # calls[r].module
    /\ calls[r].first.course.totalLectures > 0

\* C24: when updateLectureProgress calls of one learner interleave, each on
\* its own copy of the record, the record stored once all of them are over
\* has completedLectures equal to the number of completed lecture entries and
\* to the sum of the modules' completedLectures, and completedModules equal to
\* the number of completed module entries.
C24_InterleavedUpdatesKeepCounts ==
  Quiescent =>
    \A p \in progressColl :
      /\ p.completedLectures = CountCompleted(Flatten(p.modules))
      /\ p.completedLectures =
           SumSeq([k \in 1..Len(p.modules) |-> p.modules[k].completedLectures])
      /\ p.completedModules =
           Cardinality({k \in 1..Len(p.modules) : p.modules[k].isCompleted})

\* A lecture save has run at most one recount of the module and one of the
\* course from its hooks, and one more of each from the service method.
CascadeBounded ==
  \A r \in Requests :
    calls[r].pc \notin {"idle", "turnedDown"} /\ calls[r].op # "updateCourseStats"
      => /\ calls[r].recounts.module <= (IF calls[r].explicit THEN 2 ELSE 1)
         /\ calls[r].recounts.course <= (IF calls[r].explicit THEN 2 ELSE 1)
         /\ calls[r].recounts.course <= calls[r].recounts.module

\* C30: the cascade a lecture save starts terminates: the hook of the lecture
\* recounts the module, the save of the module recounts the course, the save
\* of the course recounts nothing, so the recounts of a call are bounded, no
\* hook runs itself again, and every call that began comes to its end.
C30_CascadeTerminates ==
  /\ []CascadeBounded
  /\ (calls[1] # Idle) ~> (calls[1] = Idle)

\* A call that saved a lecture is at the last step of its cascade.
C30_Witness ==
  /\ calls[1].pc = "courseWrite"
  /\ calls[1].op = "duplicateLecture"
  /\ calls[1].explicit
  /\ calls[1].lectureId \in {l.id : l \in lectureColl}

=============================================================================
